---- MODULE Spec2Model ----
(***************************************************************************)
(* Model of the data cleaner application: the CSV ingestion cascade of     *)
(* app.py (read_csv_with_fallbacks and its tiers), the upload handler      *)
(* index() with its files on disk, and the cleaning pipeline of            *)
(* utils/simple_cleaner.py and utils/data_cleaner.py.                      *)
(*                                                                         *)
(* Text is a sequence of one-character tokens.  "\n" is the line feed,     *)
(* "xE9" is the single byte 0xE9 (not valid UTF-8 on its own), "eacute" is  *)
(* the character the Latin-1 family decodes it to and "uFFFD" is the       *)
(* replacement character produced by errors='replace'.  The other named    *)
(* tokens are single characters too: "nbsp" U+00A0, "x0B" the vertical     *)
(* tab, "x1C" to "x1F" the four separator controls, "x85" U+0085,          *)
(* "x96" and "x97" U+0096 and U+0097, "uFEFF" the byte order mark,         *)
(* "u0130" the capital I with dot above, "u0307" the combining dot,        *)
(* "Acirc" "acirc" "Atilde" "atilde" the letters U+00C2 U+00E2 U+00C3      *)
(* U+00E3, "iacute" "oacute" "aacute" "uacute" "ntilde" "uuml" "ccedil"    *)
(* the accented small letters, "sup3" "ordm" "frac14" U+00B3 U+00BA        *)
(* U+00BC, and "euro" "copy" "iexcl" "plusmn" "sect" the signs U+20AC      *)
(* U+00A9 U+00A1 U+00B1 U+00A7.                                            *)
(***************************************************************************)
EXTENDS Integers, Sequences, FiniteSets, TLC

VARIABLES file, pc, attempts, ret, unit, cleaner, caller, requests, disk, clock

vars == <<file, pc, attempts, ret, unit, cleaner, caller, requests, disk, clock>>

----------------------------------------------------------------------------
(* Sequence helpers: the str methods the code uses.                        *)

NL == "\n"
QUOTE == "\""

Max(a, b) == IF a >= b THEN a ELSE b

RECURSIVE Concat(_)
\* ''.join(parts)
Concat(parts) ==
    IF parts = <<>> THEN <<>> ELSE Head(parts) \o Concat(Tail(parts))

RECURSIVE Join(_, _)
\* sep.join(parts)
Join(parts, sep) ==
    IF parts = <<>> THEN <<>>
    ELSE IF Len(parts) = 1 THEN Head(parts)
    ELSE Head(parts) \o sep \o Join(Tail(parts), sep)

RECURSIVE Count(_, _)
\* s.count(ch) for a one-character ch
Count(s, ch) ==
    IF s = <<>> THEN 0
    ELSE (IF Head(s) = ch THEN 1 ELSE 0) + Count(Tail(s), ch)

RECURSIVE SplitAcc(_, _, _, _)
SplitAcc(s, ch, cur, done) ==
    IF s = <<>> THEN Append(done, cur)
    ELSE IF Head(s) = ch THEN SplitAcc(Tail(s), ch, <<>>, Append(done, cur))
    ELSE SplitAcc(Tail(s), ch, Append(cur, Head(s)), done)

\* s.split(ch): always at least one part, empty parts kept
Split(s, ch) == SplitAcc(s, ch, <<>>, <<>>)

\* str.isspace() of one character, the class \s of re: the ASCII white
\* space, the separator controls, U+0085 and the no-break space
IsSpace(c) == c \in {" ", "\t", NL, "\r", "\f", "x0B",
                     "x1C", "x1D", "x1E", "x1F", "x85", "nbsp"}

RECURSIVE LStrip(_)
LStrip(s) == IF s # <<>> /\ IsSpace(Head(s)) THEN LStrip(Tail(s)) ELSE s

RECURSIVE RStrip(_)
RStrip(s) ==
    IF s # <<>> /\ IsSpace(s[Len(s)]) THEN RStrip(SubSeq(s, 1, Len(s) - 1)) ELSE s

\* s.strip()
Strip(s) == RStrip(LStrip(s))

\* seq[n:] of Python (n counted from 0)
From(s, n) == SubSeq(s, n + 1, Len(s))

\* seq[:n] of Python
Upto(s, n) == SubSeq(s, 1, IF n < Len(s) THEN n ELSE Len(s))

RECURSIVE ReplaceAll(_, _, _)
\* s.replace(old, new), old non-empty
ReplaceAll(s, old, new) ==
    IF Len(s) < Len(old) THEN s
    ELSE IF SubSeq(s, 1, Len(old)) = old
         THEN new \o ReplaceAll(From(s, Len(old)), old, new)
    ELSE <<Head(s)>> \o ReplaceAll(Tail(s), old, new)

RECURSIVE MaxLen(_)
\* max(len(row) for row in rows), 0 for no rows
MaxLen(rows) ==
    IF rows = <<>> THEN 0 ELSE Max(Len(Head(rows)), MaxLen(Tail(rows)))

\* row.extend([''] * (n - len(row)))
PadTo(row, n, fill) ==
    row \o [i \in 1..(IF n > Len(row) THEN n - Len(row) ELSE 0) |-> fill]

----------------------------------------------------------------------------
(* Quote-aware tokenisation, as csv.reader and the pandas tokenizer do it   *)
(* with quotechar '"', doublequote on and non-strict quoting.  States:      *)
(* "rec" start of a record, "fs" start of a field after a delimiter, "in"   *)
(* inside an unquoted field, "q" inside a quoted field, "qq" after a quote  *)
(* seen inside a quoted field.  A blank line yields the empty row.          *)

RECURSIVE Tok(_, _, _, _, _, _, _)
Tok(s, i, d, st, fld, row, rows) ==
    IF i > Len(s) THEN
        [rows |-> IF st = "rec" THEN rows ELSE Append(rows, Append(row, fld)),
         open |-> (st = "q")]
    ELSE LET c == s[i] IN
        CASE st \in {"rec", "fs"} ->
               IF c = NL THEN
                   Tok(s, i + 1, d, "rec", <<>>, <<>>,
                       Append(rows, IF st = "rec" THEN <<>> ELSE Append(row, <<>>)))
               ELSE IF c = QUOTE THEN Tok(s, i + 1, d, "q", <<>>, row, rows)
               ELSE IF c = d THEN Tok(s, i + 1, d, "fs", <<>>, Append(row, <<>>), rows)
               ELSE Tok(s, i + 1, d, "in", <<c>>, row, rows)
          [] st = "in" ->
               IF c = NL THEN
                   Tok(s, i + 1, d, "rec", <<>>, <<>>, Append(rows, Append(row, fld)))
               ELSE IF c = d THEN Tok(s, i + 1, d, "fs", <<>>, Append(row, fld), rows)
               ELSE Tok(s, i + 1, d, "in", Append(fld, c), row, rows)
          [] st = "q" ->
               IF c = QUOTE THEN Tok(s, i + 1, d, "qq", fld, row, rows)
               ELSE Tok(s, i + 1, d, "q", Append(fld, c), row, rows)
          [] OTHER ->  \* "qq"
               IF c = QUOTE THEN Tok(s, i + 1, d, "q", Append(fld, c), row, rows)
               ELSE IF c = d THEN Tok(s, i + 1, d, "fs", <<>>, Append(row, fld), rows)
               ELSE IF c = NL THEN
                   Tok(s, i + 1, d, "rec", <<>>, <<>>, Append(rows, Append(row, fld)))
               ELSE Tok(s, i + 1, d, "in", Append(fld, c), row, rows)

\* list(csv.reader(f, delimiter=d)): every line's fields, [] for a blank line
CsvReader(s, d) == Tok(s, 1, d, "rec", <<>>, <<>>, <<>>)

----------------------------------------------------------------------------
(* Tables.  A DataFrame is its column labels and its rows of cells; an      *)
(* operation that raises yields Raised.  NaN is the missing cell pandas     *)
(* parses from an empty field, None the cell the DataFrame constructor      *)
(* fills a short row with.  Numeric dtype inference keeps a cell's text.    *)

NaN == <<"<NaN>">>
None == <<"<None>">>

Raised == [raised |-> TRUE]
Table(c, r) == [raised |-> FALSE, cols |-> c, rows |-> r]

\* pd.DataFrame()
EmptyFrame == Table(<<>>, <<>>)

\* df.empty: some axis has length 0
IsEmpty(t) == Len(t.rows) = 0 \/ Len(t.cols) = 0

\* the table taken from the lists as they are, nothing filled or checked
DataFrameAsGiven(rows, cols) == Table(cols, rows)

\* pd.DataFrame(rows, columns=cols) for a list of lists: rows are filled with
\* None up to the longest row, and the labels must match that width
DataFrame(rows, cols) ==
    IF rows = <<>> THEN Table(cols, <<>>)
    ELSE IF MaxLen(rows) # Len(cols) THEN Raised
    ELSE Table(cols, [i \in 1..Len(rows) |-> PadTo(rows[i], Len(cols), None)])

Digits == <<"0", "1", "2", "3", "4", "5", "6", "7", "8", "9">>
Digit(k) == IF k < 10 THEN Digits[k + 1] ELSE "9+"

\* pandas header labels: an empty label becomes "Unnamed: i", a repeated
\* label gets the suffix .k on its k-th repetition
Mangle(header) ==
    LET named == [i \in 1..Len(header) |->
                     IF header[i] = <<>>
                     THEN <<"U", "n", "n", "a", "m", "e", "d", ":", " ", Digit(i - 1)>>
                     ELSE header[i]]
        before(i) == Cardinality({j \in 1..(i - 1) : named[j] = named[i]})
    IN [i \in 1..Len(header) |->
           IF before(i) = 0 THEN named[i]
           ELSE named[i] \o <<".", Digit(before(i))>>]

\* an empty field parses as a missing value
NaCell(f) == IF f = <<>> THEN NaN ELSE f

\* the data cells of a parsed line: padded to width w, the first lead fields
\* taken as the index
DataCells(row, w, lead) ==
    LET full == PadTo(row, w, <<>>)
    IN [i \in 1..(w - lead) |-> NaCell(full[i + lead])]

----------------------------------------------------------------------------
(* Decoding the file's bytes.                                               *)

Encodings == <<"utf-8", "latin1", "cp1252", "iso-8859-1", "utf-16", "ascii">>

RECURSIVE MapBytes(_, _)
\* every 0xE9 byte replaced by the tokens in repl
MapBytes(b, repl) ==
    IF b = <<>> THEN <<>>
    ELSE (IF Head(b) = "xE9" THEN repl ELSE <<Head(b)>>) \o MapBytes(Tail(b), repl)

\* the universal newlines of a file opened in text mode: "\r\n" and a lone
\* "\r" are read as "\n"
Newlines(text) == ReplaceAll(ReplaceAll(text, <<"\r", NL>>, <<NL>>), <<"\r">>, <<NL>>)

\* bytes.decode(enc, errors) through the incremental decoder of a text file:
\* [ok, text].  None of the files modelled starts with a byte order mark, and
\* the utf-16 decoder raises UnicodeError on two bytes that are not one,
\* whatever errors is; a single byte is a truncated code unit
DecodeBytes(b, enc, errors) ==
    CASE enc \in {"latin1", "cp1252", "iso-8859-1"} ->
             [ok |-> TRUE, text |-> MapBytes(b, <<"eacute">>)]
      [] enc = "utf-16" ->
             IF Len(b) = 0 THEN [ok |-> TRUE, text |-> <<>>]
             ELSE IF Len(b) >= 2 \/ errors = "strict" THEN [ok |-> FALSE, text |-> <<>>]
             ELSE IF errors = "replace" THEN [ok |-> TRUE, text |-> <<"uFFFD">>]
             ELSE [ok |-> TRUE, text |-> <<>>]
      [] OTHER ->  \* utf-8 and ascii: 0xE9 alone is invalid
             IF Count(b, "xE9") = 0 THEN [ok |-> TRUE, text |-> b]
             ELSE IF errors = "strict" THEN [ok |-> FALSE, text |-> <<>>]
             ELSE IF errors = "replace"
                  THEN [ok |-> TRUE, text |-> MapBytes(b, <<"uFFFD">>)]
             ELSE [ok |-> TRUE, text |-> MapBytes(b, <<>>)]

\* open(path, encoding=enc, errors=errors).read(): [ok, text]
Decode(b, enc, errors) ==
    LET dec == DecodeBytes(b, enc, errors)
    IN [ok |-> dec.ok, text |-> Newlines(dec.text)]

----------------------------------------------------------------------------
(* pandas.read_csv with the default comma separator and header row.         *)

NotBlank(row) == row # <<>>

\* the C engine, strict: blank lines skipped; the first data line may be
\* wider than the header (the surplus leading fields are the index); a later
\* line wider than that raises; shorter lines are padded
ParseStrict(text) ==
    LET tk == CsvReader(text, ",")
        lines == SelectSeq(tk.rows, NotBlank)
    IN IF tk.open \/ lines = <<>> THEN Raised
       ELSE LET header == Head(lines)
                data == Tail(lines)
                n == Len(header)
            IN IF data = <<>> THEN Table(Mangle(header), <<>>)
               ELSE LET w == Max(n, Len(data[1]))
                    IN IF \E k \in 1..Len(data) : Len(data[k]) > w THEN Raised
                       ELSE Table(Mangle(header),
                                  [k \in 1..Len(data) |-> DataCells(data[k], w, w - n)])

\* the Python engine drops a line with no field or one blank field
NotEmptyLine(row) == Len(row) > 1 \/ (Len(row) = 1 /\ Strip(row[1]) # <<>>)

\* the Python engine with on_bad_lines='skip': a line wider than the header
\* plus the index is dropped; when the second data line is wider than the first
\* by exactly the header's width, the first data line holds the index names
ParseTolerant(text) ==
    LET tk == CsvReader(text, ",")
        lines == SelectSeq(tk.rows, NotEmptyLine)
    IN IF lines = <<>> THEN Raised
       ELSE LET header == Head(lines)
                data == Tail(lines)
                n == Len(header)
            IN IF data = <<>> THEN Table(Mangle(header), <<>>)
               ELSE LET first == Len(data[1])
                        namesRow == Len(data) > 1 /\ Len(data[2]) = first + n
                        lead == IF namesRow THEN first
                                ELSE IF first > n THEN first - n ELSE 0
                        body == IF namesRow THEN Tail(data) ELSE data
                        w == n + lead
                        Fits(row) == Len(row) <= w
                        kept == SelectSeq(body, Fits)
                    IN Table(Mangle(header),
                             [k \in 1..Len(kept) |-> DataCells(kept[k], w, lead)])

----------------------------------------------------------------------------
(* Delimiter detection and the manual tiers of app.py.                      *)

Delimiters == <<",", ";", "\t", "|">>

PreviewLines == 50

\* max(delimiter_counts, key=delimiter_counts.get): the first candidate, in
\* the order of Delimiters, whose count in the line is the highest
DetectDelimiter(line) ==
    LET best == CHOOSE k \in 1..Len(Delimiters) :
                    /\ \A j \in 1..Len(Delimiters) :
                           Count(line, Delimiters[j]) <= Count(line, Delimiters[k])
                    /\ \A j \in 1..(k - 1) :
                           Count(line, Delimiters[j]) < Count(line, Delimiters[k])
    IN Delimiters[best]

\* the lines a file object iterates over, without their line feeds
FileLines(text) ==
    LET parts == Split(text, NL)
    IN IF parts[Len(parts)] = <<>> THEN SubSeq(parts, 1, Len(parts) - 1) ELSE parts

ManualEncodings == <<"utf-8", "latin1", "cp1252", "iso-8859-1", "utf-16">>

\* the first read of one pass of the encoding loop of manual_csv_parse, on
\* the bytes the file holds then: whether the file decodes and has a line,
\* and the delimiter counted in its first line, stripped
ManualPreview(b, k) ==
    LET dec == Decode(b, ManualEncodings[k], "replace")
        all == FileLines(dec.text)
        lines == [i \in 1..Len(Upto(all, PreviewLines)) |-> Strip(all[i])]
    IN [found |-> dec.ok /\ lines # <<>>,
        delimiter |-> IF dec.ok /\ lines # <<>> THEN DetectDelimiter(lines[1])
                      ELSE ","]

\* the second read of the pass, after f.seek(0), on the bytes the file holds
\* by then: list(csv.reader(f, delimiter=delimiter)), or the exception of a
\* file that does not decode, which sends the loop on
ManualReader(b, k, delimiter) ==
    LET dec == Decode(b, ManualEncodings[k], "replace")
    IN [raised |-> ~dec.ok,
        rows |-> IF dec.ok THEN CsvReader(dec.text, delimiter).rows ELSE <<>>]

\* one pass of the encoding loop of manual_csv_parse on a file that holds the
\* bytes b at both reads: whether the file has a line under the encoding, and
\* then the whole file tokenised on the delimiter of its first line
ManualTry(b, k) ==
    LET first == ManualPreview(b, k)
    IN IF first.found
       THEN [found |-> TRUE, rows |-> ManualReader(b, k, first.delimiter).rows]
       ELSE [found |-> FALSE, rows |-> <<>>]

RECURSIVE ManualRows(_, _)
\* the encoding loop of manual_csv_parse: the first encoding under which the
\* file has a line decides the delimiter and tokenises the whole file; an
\* encoding that raises is passed over
ManualRows(b, k) ==
    IF k > Len(ManualEncodings) THEN <<>>
    ELSE IF ManualTry(b, k).found THEN ManualTry(b, k).rows
    ELSE ManualRows(b, k + 1)

\* the last resort of manual_csv_parse: every line split on commas
SimpleSplitRows(b) ==
    LET all == FileLines(Decode(b, "utf-8", "ignore").text)
    IN [i \in 1..Len(all) |-> Split(Strip(all[i]), ",")]

\* rows[i].extend([''] * (max_cols - len(rows[i]))) for every row
PadRows(rows) == [i \in 1..Len(rows) |-> PadTo(rows[i], MaxLen(rows), <<>>)]

\* the frame manual_csv_parse builds from its rows
ManualFrame(rows) ==
    IF Len(rows) > 1
    THEN LET padded == PadRows(rows)
         IN DataFrame(Tail(padded), Head(padded))
    ELSE EmptyFrame

manual_csv_parse(b) ==
    LET found == ManualRows(b, 1)
    IN ManualFrame(IF found = <<>> THEN SimpleSplitRows(b) ELSE found)

----------------------------------------------------------------------------
(* The content-cleaning pass.                                               *)

\* the replacements dict of clean_csv_content, in its insertion order
Replacements == <<
    <<<<"Acirc">>, <<>>>>,
    <<<<"acirc", "euro">>, <<"-">>>>,
    <<<<"Atilde", "copy">>, <<"eacute">>>>,
    <<<<"Atilde">>, <<"iacute">>>>,
    <<<<"Atilde", "sup3">>, <<"oacute">>>>,
    <<<<"Atilde", "iexcl">>, <<"aacute">>>>,
    <<<<"Atilde", "plusmn">>, <<"ntilde">>>>,
    <<<<"Atilde", "ordm">>, <<"uacute">>>>,
    <<<<"Atilde", "frac14">>, <<"uuml">>>>,
    <<<<"Atilde", "sect">>, <<"ccedil">>>>,
    <<<<"nbsp">>, <<" ">>>>,
    <<<<"x96">>, <<"-">>>>,
    <<<<"x97">>, <<"-">>>> >>

RECURSIVE ApplyReplacements(_, _)
\* for old, new in replacements.items(): content = content.replace(old, new)
ApplyReplacements(s, k) ==
    IF k > Len(Replacements) THEN s
    ELSE ApplyReplacements(ReplaceAll(s, Replacements[k][1], Replacements[k][2]), k + 1)

\* the loop body of clean_csv_content for one data line
FixLine(line, comma_count) ==
    LET n == Count(line, ",")
        parts == Split(line, ",")
    IN IF n < comma_count THEN line \o [i \in 1..(comma_count - n) |-> ","]
       ELSE IF n > comma_count /\ Len(parts) > comma_count + 1
            THEN Join(Upto(parts, comma_count), <<",">>) \o <<",", QUOTE>>
                 \o Join(From(parts, comma_count), <<",">>) \o <<QUOTE>>
       ELSE line

HasText(line) == Strip(line) # <<>>

clean_csv_content(content) ==
    LET eol == ReplaceAll(ReplaceAll(content, <<"\r", NL>>, <<NL>>), <<"\r">>, <<NL>>)
        nobom == IF eol # <<>> /\ Head(eol) = "uFEFF" THEN Tail(eol) ELSE eol
        fixed == ApplyReplacements(nobom, 1)
        lines == SelectSeq(Split(fixed, NL), HasText)
    IN IF lines = <<>> THEN fixed
       ELSE LET comma_count == Count(lines[1], ",")
            IN Join([i \in 1..Len(lines) |->
                        IF i = 1 THEN lines[1] ELSE FixLine(lines[i], comma_count)],
                    <<NL>>)

\* the fallback of text_based_csv_parse: plain splitting on the detected
\* delimiter, every cell stripped
SplitCells(line, d) ==
    LET parts == Split(line, d) IN [i \in 1..Len(parts) |-> Strip(parts[i])]

text_based_csv_parse(b) ==
    LET content == clean_csv_content(Decode(b, "utf-8", "ignore").text)
        parsed == ParseStrict(content)
    IN IF ~parsed.raised THEN parsed
       ELSE LET lines == Split(Strip(content), NL)
                d == DetectDelimiter(lines[1])
                rows == [i \in 1..Len(lines) |-> SplitCells(lines[i], d)]
                df == IF Len(rows) > 1 THEN DataFrame(Tail(rows), Head(rows))
                      ELSE EmptyFrame
            IN IF df.raised THEN EmptyFrame ELSE df

----------------------------------------------------------------------------
(* The files the model reads: a header line and up to MaxRows data lines,   *)
(* each line terminated by a line feed, and the file of no bytes.           *)

MaxHeaderFields == 3
MaxRows == 2
MaxFields == MaxHeaderFields + 2

Letters == <<"a", "b", "c", "d", "e">>
FileDelims == {",", ";"}

\* n fields taken from names, joined by d
Line(n, d, names) == Join([i \in 1..n |-> <<names[i]>>], <<d>>)

HeaderLines == {Line(n, d, Letters) : n \in 0..MaxHeaderFields, d \in FileDelims}

SpecialLines ==
    { <<"1", ",", QUOTE, "2", ",", "3", QUOTE>>,   \* a quoted field holding a comma
      <<QUOTE, QUOTE>>,                            \* one quoted empty field
      <<"xE9", ",", "1">> }                        \* a byte that is not UTF-8

DataLines ==
    {Line(n, d, Tail(Digits)) : n \in 0..MaxFields, d \in FileDelims} \cup SpecialLines

\* the bytes of a file holding the given lines
FileOf(lines) == Concat([i \in 1..Len(lines) |-> Append(lines[i], NL)])

Files ==
    {<<>>} \cup
    UNION {{FileOf(<<h>> \o body) : h \in HeaderLines, body \in [1..k -> DataLines]}
           : k \in 0..MaxRows}

----------------------------------------------------------------------------
(* read_csv_with_fallbacks as a state machine.  pc is the tier about to be  *)
(* attempted and the index of its next encoding; attempts is the log of the *)
(* tiers attempted so far with each one's outcome; ret is the DataFrame     *)
(* returned, once the function has returned.                                *)

NotStarted == [tier |-> "off", k |-> 0]
NoValue == [raised |-> FALSE, cols |-> <<>>, rows |-> <<>>, none |-> TRUE]

\* pd.read_csv(filepath, encoding=enc)
DirectRead(b, enc) ==
    LET dec == Decode(b, enc, "strict")
    IN IF dec.ok THEN ParseStrict(dec.text) ELSE Raised

\* pd.read_csv(filepath, encoding=enc, on_bad_lines='skip', engine='python')
TolerantRead(b, enc) ==
    LET dec == Decode(b, enc, "strict")
    IN IF dec.ok THEN ParseTolerant(dec.text) ELSE Raised

\* the test of strategy 1: not df.empty and len(df.columns) > 1
AcceptDirect(df) == ~df.raised /\ ~IsEmpty(df) /\ Len(df.cols) > 1

\* the test of strategy 1 applied by the later strategies too
AcceptSeveralColumns(df) == ~df.raised /\ ~IsEmpty(df) /\ Len(df.cols) > 1

\* the test of strategies 2, 3 and 4: not df.empty
AcceptNonEmpty(df) == ~df.raised /\ ~IsEmpty(df)

Outcome(df, ok) ==
    IF df.raised THEN "raised" ELSE IF ok THEN "accepted" ELSE "rejected"

Logged(tier, enc, df, ok) ==
    Append(attempts, [tier |-> tier, enc |-> enc, outcome |-> Outcome(df, ok)])

\* one pass of a loop over Encodings: return on acceptance, else go on to the
\* next encoding, and after the last to the tier named next
EncodingStep(tier, df, ok, next) ==
    /\ attempts' = Logged(tier, Encodings[pc.k], df, ok)
    /\ IF ok THEN pc' = [tier |-> "returned", k |-> 0] /\ ret' = df
       ELSE /\ pc' = IF pc.k < Len(Encodings) THEN [pc EXCEPT !.k = @ + 1]
                     ELSE [tier |-> next, k |-> 1]
            /\ ret' = ret
    /\ UNCHANGED <<file, unit, cleaner, caller, requests, disk, clock>>

DirectParse ==
    /\ pc.tier = "direct"
    /\ LET df == DirectRead(file, Encodings[pc.k])
       IN EncodingStep("direct", df, AcceptDirect(df), "tolerant")

\* strategy 2 handing over to the content repair, manual tokenisation skipped
TolerantParseThenText ==
    /\ pc.tier = "tolerant"
    /\ LET df == TolerantRead(file, Encodings[pc.k])
       IN EncodingStep("tolerant", df, AcceptNonEmpty(df), "text")

TolerantParse ==
    /\ pc.tier = "tolerant"
    /\ LET df == TolerantRead(file, Encodings[pc.k])
       IN EncodingStep("tolerant", df, AcceptNonEmpty(df), "manual")

ManualParse ==
    /\ pc.tier = "manual"
    /\ LET df == manual_csv_parse(file)
       IN /\ attempts' = Logged("manual", "any", df, AcceptNonEmpty(df))
          /\ IF AcceptNonEmpty(df)
             THEN pc' = [tier |-> "returned", k |-> 0] /\ ret' = df
             ELSE pc' = [tier |-> "text", k |-> 1] /\ ret' = ret
    /\ UNCHANGED <<file, unit, cleaner, caller, requests, disk, clock>>

\* strategy 4, and the return of pd.DataFrame() when it too is rejected
TextParse ==
    /\ pc.tier = "text"
    /\ LET df == text_based_csv_parse(file)
       IN /\ attempts' = Logged("text", "utf-8", df, AcceptNonEmpty(df))
          /\ IF AcceptNonEmpty(df)
             THEN pc' = [tier |-> "returned", k |-> 0] /\ ret' = df
             ELSE pc' = [tier |-> "failed", k |-> 0] /\ ret' = EmptyFrame
    /\ UNCHANGED <<file, unit, cleaner, caller, requests, disk, clock>>

\* manual_csv_parse and text_based_csv_parse called on the file directly,
\* outside the cascade
ApplyManual ==
    /\ pc.tier = "direct" /\ pc.k = 1
    /\ unit' = [fn |-> "manual", out |-> manual_csv_parse(file)]
    /\ pc' = [tier |-> "unit", k |-> 0]
    /\ UNCHANGED <<file, attempts, ret, cleaner, caller, requests, disk, clock>>

ApplyText ==
    /\ pc.tier = "direct" /\ pc.k = 1
    /\ unit' = [fn |-> "text", out |-> text_based_csv_parse(file)]
    /\ pc' = [tier |-> "unit", k |-> 0]
    /\ UNCHANGED <<file, attempts, ret, cleaner, caller, requests, disk, clock>>

NoUnit == [fn |-> "none", out |-> EmptyFrame]

\* no SimpleDataCleaner has been constructed
NoCleaner == [pc |-> "off"]
NoCaller == [held |-> FALSE]

\* no upload is being handled
IdleUpload ==
    /\ requests = <<>>
    /\ disk = {}
    /\ clock = 0

InitIngest ==
    /\ file \in Files
    /\ pc = [tier |-> "direct", k |-> 1]
    /\ attempts = <<>>
    /\ ret = NoValue
    /\ unit = NoUnit
    /\ cleaner = NoCleaner
    /\ caller = NoCaller
    /\ IdleUpload

NextIngest ==
    \/ DirectParse
    \/ TolerantParse
    \/ ManualParse
    \/ TextParse
    \/ ApplyManual
    \/ ApplyText

SpecIngest == InitIngest /\ [][NextIngest]_vars

RECURSIVE DirectLoop(_, _)
\* strategy 1 as a function: the first accepted read, or NoValue
DirectLoop(b, k) ==
    IF k > Len(Encodings) THEN NoValue
    ELSE IF AcceptDirect(DirectRead(b, Encodings[k])) THEN DirectRead(b, Encodings[k])
    ELSE DirectLoop(b, k + 1)

RECURSIVE TolerantLoop(_, _)
\* strategy 2 as a function
TolerantLoop(b, k) ==
    IF k > Len(Encodings) THEN NoValue
    ELSE IF AcceptNonEmpty(TolerantRead(b, Encodings[k]))
         THEN TolerantRead(b, Encodings[k])
    ELSE TolerantLoop(b, k + 1)

\* the value read_csv_with_fallbacks returns
read_csv_with_fallbacks(b) ==
    IF DirectLoop(b, 1) # NoValue THEN DirectLoop(b, 1)
    ELSE IF TolerantLoop(b, 1) # NoValue THEN TolerantLoop(b, 1)
    ELSE IF AcceptNonEmpty(manual_csv_parse(b)) THEN manual_csv_parse(b)
    ELSE IF AcceptNonEmpty(text_based_csv_parse(b)) THEN text_based_csv_parse(b)
    ELSE EmptyFrame

----------------------------------------------------------------------------
(* Properties of the ingestion cascade.                                     *)

\* every row of a DataFrame has one cell per column label
WidthOk(t) == t.raised \/ \A i \in 1..Len(t.rows) : Len(t.rows[i]) = Len(t.cols)

PlainFile(b) ==
    /\ b # <<>>
    /\ Count(b, QUOTE) = 0 /\ Count(b, "xE9") = 0
    /\ \A i \in 1..Len(FileLines(b)) : FileLines(b)[i] # <<>>

\* the first n - 1 fields, then the remaining fields joined by d
MergedRow(fields, n, d) ==
    Append(Upto(fields, n - 1), Join(From(fields, n - 1), <<d>>))

\* C2: in manual tokenisation and in the content-repair re-parse a data line
\* with more fields than the header yields a row of the header's width whose
\* last cell is the excess fields joined by the delimiter, and the column
\* list is exactly the header line's fields.
C2_OverflowMergedIntoLastCell ==
    (pc.tier = "unit" /\ PlainFile(file)) =>
        LET lines == FileLines(file)
            d == IF unit.fn = "manual" THEN DetectDelimiter(lines[1]) ELSE ","
            header == Split(lines[1], d)
            Overflows(i) == Len(Split(lines[i], d)) > Len(header)
        IN (\E i \in 2..Len(lines) : Overflows(i)) =>
               /\ ~unit.out.raised
               /\ unit.out.cols = header
               /\ \A i \in 2..Len(lines) :
                      Overflows(i) =>
                          /\ Len(unit.out.rows) >= i - 1
                          /\ unit.out.rows[i - 1] =
                                 MergedRow(Split(lines[i], d), Len(header), d)

\* the attempts of a complete run, in order
Schedule ==
    [j \in 1..(2 * Len(Encodings) + 2) |->
        IF j <= Len(Encodings) THEN [tier |-> "direct", enc |-> Encodings[j]]
        ELSE IF j <= 2 * Len(Encodings)
             THEN [tier |-> "tolerant", enc |-> Encodings[j - Len(Encodings)]]
        ELSE IF j = 2 * Len(Encodings) + 1 THEN [tier |-> "manual", enc |-> "any"]
        ELSE [tier |-> "text", enc |-> "utf-8"]]

\* C3: the tiers are attempted in the order direct, tolerant, manual,
\* content repair; an attempt is made only after every earlier one raised or
\* was rejected; the first accepted result is returned and nothing is
\* attempted after it.
C3_TierOrder ==
    /\ Len(attempts) <= Len(Schedule)
    /\ \A j \in 1..Len(attempts) :
           /\ attempts[j].tier = Schedule[j].tier
           /\ attempts[j].enc = Schedule[j].enc
    /\ \A j \in 1..(Len(attempts) - 1) : attempts[j].outcome # "accepted"
    /\ pc.tier = "returned" =>
           /\ attempts[Len(attempts)].outcome = "accepted"
           /\ ~ret.raised /\ ~IsEmpty(ret)
    /\ (attempts # <<>> /\ attempts[Len(attempts)].outcome = "accepted") =>
           pc.tier = "returned"

\* manual tokenisation returned a table after both pandas tiers had been
\* attempted under every encoding
C3_Witness ==
    /\ pc.tier = "returned"
    /\ attempts[Len(attempts)].tier = "manual"
    /\ Len(ret.cols) > 1

\* raised, or zero rows, or zero columns
Unusable(df) == df.raised \/ IsEmpty(df)

NoTierUsable(b) ==
    /\ \A k \in 1..Len(Encodings) : Unusable(DirectRead(b, Encodings[k]))
    /\ \A k \in 1..Len(Encodings) : Unusable(TolerantRead(b, Encodings[k]))
    /\ Unusable(manual_csv_parse(b))
    /\ Unusable(text_based_csv_parse(b))

\* C4: the cascade ends in failure (the empty DataFrame) exactly when every
\* tier has been attempted and each raised or produced zero rows or zero
\* columns.
C4_FailureIffExhausted ==
    /\ pc.tier = "failed" =>
           /\ Len(attempts) = Len(Schedule)
           /\ \A j \in 1..Len(attempts) : attempts[j].outcome # "accepted"
           /\ NoTierUsable(file)
           /\ ret = EmptyFrame
    /\ pc.tier = "returned" => ~NoTierUsable(file)
    /\ (Len(attempts) = Len(Schedule)
          /\ attempts[Len(attempts)].outcome # "accepted") => pc.tier = "failed"

\* a file with a header line and no data ran through every tier and failed
C4_Witness ==
    /\ pc.tier = "failed"
    /\ file # <<>>
    /\ Len(attempts) = Len(Schedule)

\* C5: the cascade never returns a one-column table when the file's first
\* line holds a candidate delimiter.
C5_NoSingleColumnWhenDelimited ==
    (pc.tier = "returned"
       /\ \E j \in 1..Len(Delimiters) : Count(FileLines(file)[1], Delimiters[j]) > 0)
    => Len(ret.cols) # 1

----------------------------------------------------------------------------
(* Cell values of a loaded DataFrame: a missing cell, a string, or a number *)
(* kept as the fraction n/d in lowest terms.                                *)

Missing == [k |-> "nan"]
Str(s) == [k |-> "str", s |-> s]

RECURSIVE Gcd(_, _)
Gcd(a, b) == IF b = 0 THEN a ELSE Gcd(b, a % b)

Abs(a) == IF a < 0 THEN -a ELSE a

Num(n, d) ==
    LET g == Gcd(Abs(n), d) IN [k |-> "num", n |-> n \div g, d |-> d \div g]

IsNull(c) == c.k = "nan"

NumLess(a, b) == a.n * b.d < b.n * a.d

NumAdd(a, b) == Num(a.n * b.d + b.n * a.d, a.d * b.d)

RECURSIVE NumSum(_)
NumSum(vals) == IF vals = <<>> THEN Num(0, 1) ELSE NumAdd(Head(vals), NumSum(Tail(vals)))

\* Series.median(): NaN for no values
Median(vals) ==
    IF vals = <<>> THEN Missing
    ELSE LET sorted == SortSeq(vals, NumLess)
             n == Len(sorted)
         IN IF n % 2 = 1 THEN sorted[(n + 1) \div 2]
            ELSE LET s == NumAdd(sorted[n \div 2], sorted[n \div 2 + 1])
                 IN Num(s.n, 2 * s.d)

\* Series.mean(): NaN for no values
Mean(vals) ==
    IF vals = <<>> THEN Missing
    ELSE LET s == NumSum(vals) IN Num(s.n, s.d * Len(vals))

Lower26 == <<"a", "b", "c", "d", "e", "f", "g", "h", "i", "j", "k", "l", "m",
             "n", "o", "p", "q", "r", "s", "t", "u", "v", "w", "x", "y", "z">>
Upper26 == <<"A", "B", "C", "D", "E", "F", "G", "H", "I", "J", "K", "L", "M",
             "N", "O", "P", "Q", "R", "S", "T", "U", "V", "W", "X", "Y", "Z">>

\* code point order of the characters of the model
Alphabet == <<NL, " ", QUOTE, "$", "(", ")", ",", "-", ".">> \o Digits \o <<";">>
            \o Upper26 \o <<"[", "_">> \o Lower26 \o <<"|">>

Rank(c) == IF \E i \in 1..Len(Alphabet) : Alphabet[i] = c
           THEN CHOOSE i \in 1..Len(Alphabet) : Alphabet[i] = c
           ELSE Len(Alphabet) + 1

RECURSIVE TextLess(_, _)
\* s < t for strings
TextLess(s, t) ==
    IF t = <<>> THEN FALSE
    ELSE IF s = <<>> THEN TRUE
    ELSE IF Head(s) = Head(t) THEN TextLess(Tail(s), Tail(t))
    ELSE Rank(Head(s)) < Rank(Head(t))

\* the order Series.mode() sorts its result in
CellLess(a, b) == IF a.k = "num" THEN NumLess(a, b) ELSE TextLess(a.s, b.s)

Occurrences(vals, v) == Cardinality({i \in 1..Len(vals) : vals[i] = v})

\* Series.mode().iloc[0]: the most frequent non-missing value, the smallest
\* such value on a tie; Missing when mode() is empty
Mode(vals) ==
    IF vals = <<>> THEN Missing
    ELSE LET top == {i \in 1..Len(vals) :
                        \A j \in 1..Len(vals) :
                            Occurrences(vals, vals[j]) <= Occurrences(vals, vals[i])}
             best == CHOOSE i \in top :
                         \A j \in top : vals[j] = vals[i] \/ CellLess(vals[i], vals[j])
         IN vals[best]

Unknown == Str(<<"U", "n", "k", "n", "o", "w", "n">>)

\* Series.astype(str) on an object column, whose cells in this model are
\* strings or missing
AsStr(c) == IF c.k = "nan" THEN Str(<<"n", "a", "n">>) ELSE c

----------------------------------------------------------------------------
(* Column labels.                                                           *)

IsUpper(c) == \E i \in 1..Len(Upper26) : Upper26[i] = c
\* c.lower() for a character whose lower case is one character: the ASCII
\* capitals and the two accented capitals of the alphabet
LowerChar(c) ==
    IF IsUpper(c) THEN Lower26[CHOOSE i \in 1..Len(Upper26) : Upper26[i] = c]
    ELSE IF c = "Acirc" THEN "acirc"
    ELSE IF c = "Atilde" THEN "atilde"
    ELSE c

\* s.lower(): one character each, but for the capital I with dot above
\* ("u0130"), which becomes i followed by the combining dot ("u0307")
Lower(s) ==
    Concat([i \in 1..Len(s) |->
               IF s[i] = "u0130" THEN <<"i", "u0307">> ELSE <<LowerChar(s[i])>>])

\* the letters and numerals outside ASCII among the named characters
UnicodeAlnum == {"eacute", "iacute", "oacute", "aacute", "uacute", "ntilde",
                 "uuml", "ccedil", "Acirc", "acirc", "Atilde", "atilde",
                 "sup3", "ordm", "frac14", "u0130"}

\* the class \w of re on str patterns: alphanumeric in Unicode, or "_"
IsWord(c) ==
    \/ IsUpper(c)
    \/ \E i \in 1..Len(Lower26) : Lower26[i] = c
    \/ \E i \in 1..Len(Digits) : Digits[i] = c
    \/ c = "_"
    \/ c \in UnicodeAlnum

RECURSIVE DropSpecial(_)
\* re.sub(r'[^\w\s]', '', s)
DropSpecial(s) ==
    IF s = <<>> THEN <<>>
    ELSE (IF IsWord(Head(s)) \/ IsSpace(Head(s)) THEN <<Head(s)>> ELSE <<>>)
         \o DropSpecial(Tail(s))

RECURSIVE SpacesToUnderscore(_)
\* re.sub(r'\s+', '_', s)
SpacesToUnderscore(s) ==
    IF s = <<>> THEN <<>>
    ELSE IF IsSpace(Head(s)) THEN <<"_">> \o SpacesToUnderscore(LStrip(s))
    ELSE <<Head(s)>> \o SpacesToUnderscore(Tail(s))

\* SimpleDataCleaner._clean_column_name of simple_cleaner.py
clean_column_name(col) ==
    IF col = NaN THEN <<"u", "n", "k", "n", "o", "w", "n", "_", "c", "o", "l", "u", "m", "n">>
    ELSE LET cleaned == Lower(SpacesToUnderscore(DropSpecial(Strip(col))))
         IN IF cleaned = <<>> THEN <<"c", "o", "l", "u", "m", "n">> ELSE cleaned

RECURSIVE MapChars(_, _, _)
\* s.replace(old, new) for one character old
MapChars(s, old, new) ==
    IF s = <<>> THEN <<>>
    ELSE (IF Head(s) = old THEN new ELSE <<Head(s)>>) \o MapChars(Tail(s), old, new)

\* str(col) of a label
LabelStr(col) == IF col = NaN THEN <<"n", "a", "n">> ELSE col

\* step 5 of clean_data in data_cleaner.py
legacy_column_name(col) ==
    Lower(MapChars(MapChars(MapChars(MapChars(Strip(LabelStr(col)),
          " ", <<"_">>), "-", <<"_">>), "(", <<>>), ")", <<>>))

RECURSIVE Contains(_, _)
\* sub in s
Contains(s, sub) ==
    IF Len(s) < Len(sub) THEN FALSE
    ELSE SubSeq(s, 1, Len(sub)) = sub \/ Contains(Tail(s), sub)

----------------------------------------------------------------------------
(* DataFrames with typed columns: labels, one dtype per column ("num" or    *)
(* "obj") and rows of cells.                                                *)

Frame(c, d, r) == [cols |-> c, dtypes |-> d, rows |-> r]

NoFrame == Frame(<<>>, <<>>, <<>>)

NRows(t) == Len(t.rows)
NCols(t) == Len(t.cols)

\* df.empty
FrameEmpty(t) == NRows(t) = 0 \/ NCols(t) = 0

Column(t, j) == [i \in 1..NRows(t) |-> t.rows[i][j]]

NotNull(c) == ~IsNull(c)
Present(vals) == SelectSeq(vals, NotNull)

NullCount(t, j) == Len(Column(t, j)) - Len(Present(Column(t, j)))

\* df[label] selects more than one column
Ambiguous(t, j) == \E i \in 1..NCols(t) : i # j /\ t.cols[i] = t.cols[j]

\* the frame with column j holding new cells of the given dtype
WithColumn(t, j, cells, dtype) ==
    Frame(t.cols,
          [i \in 1..NCols(t) |-> IF i = j THEN dtype ELSE t.dtypes[i]],
          [i \in 1..NRows(t) |->
              [c \in 1..NCols(t) |-> IF c = j THEN cells[i] ELSE t.rows[i][c]]])

\* a fill that fills nothing
FillNaNothing(vals, v) == vals

\* Series.fillna(v); filling with NaN changes nothing
FillNa(vals, v) == [i \in 1..Len(vals) |-> IF IsNull(vals[i]) THEN v ELSE vals[i]]

\* the positions 1..n in order
Indices(n) == [i \in 1..n |-> i]

\* the frame restricted to the given columns
SelectColumns(t, idx) ==
    Frame([k \in 1..Len(idx) |-> t.cols[idx[k]]],
          [k \in 1..Len(idx) |-> t.dtypes[idx[k]]],
          [i \in 1..NRows(t) |-> [k \in 1..Len(idx) |-> t.rows[i][idx[k]]]])

\* the frame restricted to the given rows
SelectFrameRows(t, idx) ==
    Frame(t.cols, t.dtypes, [k \in 1..Len(idx) |-> t.rows[idx[k]]])

----------------------------------------------------------------------------
(* Cleaning options: a mapping from option names to values, each value a    *)
(* number (missing_threshold, in percent), a string or a boolean.           *)

NoOptions == [key \in {} |-> 0]

Pct(p) == [k |-> "num", pct |-> p]
OptStr(s) == [k |-> "str", s |-> s]
OptBool(b) == [k |-> "bool", b |-> b]
OptNone == [k |-> "none"]

\* options.get(key, default)
Get(o, key, default) == IF key \in DOMAIN o THEN o[key] ELSE default

\* the truth value Python gives an option value
Truthy(v) ==
    CASE v.k = "bool" -> v.b
      [] v.k = "str" -> v.s # ""
      [] v.k = "num" -> v.pct # 0
      [] OTHER -> FALSE

----------------------------------------------------------------------------
(* The stages of clean_data.  A stage yields the frame it leaves in         *)
(* self.df, whether it raised, and whether self.df was rebound to a new     *)
(* object (rebound) or the object was changed in place.                     *)

StageResult(t, raised, rebound) == [df |-> t, raised |-> raised, rebound |-> rebound]

\* the labels whose fraction of missing rows is below pct percent
SparseLabelsBelow(t, pct) ==
    {t.cols[j] : j \in {i \in 1..NCols(t) : NullCount(t, i) * 100 < pct * NRows(t)}}

\* the labels whose fraction of missing rows exceeds pct percent; a frame
\* without rows has none (0/0 compares false)
SparseLabels(t, pct) ==
    {t.cols[j] : j \in {i \in 1..NCols(t) : NullCount(t, i) * 100 > pct * NRows(t)}}

\* df.drop(columns=labels): every column bearing one of the labels goes
DropLabels(t, labels) ==
    LET Keep(j) == t.cols[j] \notin labels
    IN SelectColumns(t, SelectSeq(Indices(NCols(t)), Keep))

\* step 2 of simple_cleaner.py: skipped for a threshold of 1 or more; a
\* threshold given as a string cannot be compared with 1
SparseSimple(t, o) ==
    LET thr == Get(o, "missing_threshold", Pct(50))
    IN IF thr.k # "num" THEN StageResult(t, TRUE, FALSE)
       ELSE IF thr.pct < 100 /\ SparseLabels(t, thr.pct) # {}
            THEN StageResult(DropLabels(t, SparseLabels(t, thr.pct)), FALSE, TRUE)
       ELSE StageResult(t, FALSE, FALSE)

\* step 1 of data_cleaner.py
SparseLegacy(t, o) ==
    LET thr == Get(o, "missing_threshold", Pct(50))
    IN IF thr.k # "num" THEN StageResult(t, TRUE, FALSE)
       ELSE IF SparseLabels(t, thr.pct) # {}
            THEN StageResult(DropLabels(t, SparseLabels(t, thr.pct)), FALSE, TRUE)
       ELSE StageResult(t, FALSE, FALSE)

\* the fill of one column in simple_cleaner.py: the median for a numeric
\* column, 'Unknown' otherwise, whatever handle_missing says
FilledSimple(t, j) ==
    IF t.dtypes[j] = "num"
    THEN WithColumn(t, j, FillNa(Column(t, j), Median(Present(Column(t, j)))), "num")
    ELSE WithColumn(t, j, FillNa(Column(t, j), Unknown), "obj")

\* the fill of one column in data_cleaner.py
FilledLegacy(t, j, method) ==
    LET col == Column(t, j)
        numeric == t.dtypes[j] = "num"
    IN IF method = "mean" /\ numeric
       THEN WithColumn(t, j, FillNa(col, Mean(Present(col))), "num")
       ELSE IF method = "median" /\ numeric
       THEN WithColumn(t, j, FillNa(col, Median(Present(col))), "num")
       ELSE IF method = "mode"
       THEN IF Present(col) # <<>>
            THEN WithColumn(t, j, FillNa(col, Mode(Present(col))), t.dtypes[j])
            ELSE WithColumn(t, j, FillNa(col, Unknown), "obj")
       ELSE IF numeric
       THEN WithColumn(t, j, FillNa(col, Median(Present(col))), "num")
       ELSE WithColumn(t, j, FillNa(col, Unknown), "obj")

RECURSIVE ImputeFrom(_, _, _, _)
\* for col in self.df.columns: if self.df[col].isnull().any(): ...
\* a label borne by two columns selects a frame, whose any() has no truth
\* value: the loop raises there, the earlier columns already filled
ImputeFrom(t, j, impl, method) ==
    IF j > NCols(t) THEN StageResult(t, FALSE, FALSE)
    ELSE IF Ambiguous(t, j) THEN StageResult(t, TRUE, FALSE)
    ELSE IF NullCount(t, j) = 0 THEN ImputeFrom(t, j + 1, impl, method)
    ELSE ImputeFrom(IF impl = "simple" THEN FilledSimple(t, j)
                    ELSE FilledLegacy(t, j, method), j + 1, impl, method)

Impute(t, o, impl) ==
    ImputeFrom(t, 1, impl, Get(o, "handle_missing", OptStr("auto")).s)

\* df.duplicated().sum(): rows equal, cell by cell, to an earlier row; a
\* frame with an empty axis has none
DuplicateCount(t) ==
    IF FrameEmpty(t) THEN 0
    ELSE Cardinality({i \in 1..NRows(t) : \E j \in 1..(i - 1) : t.rows[j] = t.rows[i]})

\* only the last of the rows that repeat an earlier row is removed
DropLastDuplicate(t) ==
    LET Repeats(i) == \E j \in 1..(i - 1) : t.rows[j] = t.rows[i]
        Kept(i) == ~Repeats(i) \/ \E k \in (i + 1)..NRows(t) : Repeats(k)
    IN SelectFrameRows(t, SelectSeq(Indices(NRows(t)), Kept))

\* df.drop_duplicates(): the first occurrence of every row, in order
DropDuplicates(t) ==
    LET First(i) == \A j \in 1..(i - 1) : t.rows[j] # t.rows[i]
    IN SelectFrameRows(t, SelectSeq(Indices(NRows(t)), First))

WantsDrop(o) == Get(o, "handle_duplicates", OptStr("drop")) = OptStr("drop")

Dedupe(t, o) ==
    IF WantsDrop(o) /\ DuplicateCount(t) > 0
    THEN StageResult(DropDuplicates(t), FALSE, TRUE)
    ELSE StageResult(t, FALSE, FALSE)

\* Series.astype(str).str.strip()
Stripped(col) == [i \in 1..Len(col) |-> Str(Strip(AsStr(col[i]).s))]

\* step 5 of simple_cleaner.py for one object column: left alone when its
\* first non-missing value holds '$' or starts with '['
TextSimple(t, j) ==
    LET present == Present(Column(t, j))
        sample == IF present = <<>> THEN <<>> ELSE present[1].s
        special == Count(sample, "$") > 0 \/ (sample # <<>> /\ Head(sample) = "[")
    IN IF special THEN t ELSE WithColumn(t, j, Stripped(Column(t, j)), "obj")

\* step 4 of data_cleaner.py for one object column: left alone when the
\* label holds 'gross' or the first cell holds '$'
TextLegacy(t, j) ==
    LET first == IF NRows(t) = 0 THEN <<>> ELSE AsStr(t.rows[1][j]).s
        special == Contains(Lower(t.cols[j]), <<"g", "r", "o", "s", "s">>)
                   \/ Count(first, "$") > 0
    IN IF special THEN t ELSE WithColumn(t, j, Stripped(Column(t, j)), "obj")

RECURSIVE TextFrom(_, _, _)
\* the loop over the object columns; a label selecting two columns, or in
\* data_cleaner.py a label that is not a string, raises
TextFrom(t, j, impl) ==
    IF j > NCols(t) THEN StageResult(t, FALSE, FALSE)
    ELSE IF t.dtypes[j] # "obj" THEN TextFrom(t, j + 1, impl)
    ELSE IF Ambiguous(t, j) \/ (impl = "legacy" /\ t.cols[j] = NaN)
         THEN StageResult(t, TRUE, FALSE)
    ELSE TextFrom(IF impl = "simple" THEN TextSimple(t, j) ELSE TextLegacy(t, j),
                  j + 1, impl)

Standardize(t, o, impl) ==
    IF Truthy(Get(o, "standardize_text", OptNone)) THEN TextFrom(t, 1, impl)
    ELSE StageResult(t, FALSE, FALSE)

\* self.df.columns = [...]: the labels of the same object replaced
Renamed(t, impl) ==
    Frame([j \in 1..NCols(t) |->
              IF impl = "simple" THEN clean_column_name(t.cols[j])
              ELSE legacy_column_name(t.cols[j])],
          t.dtypes, t.rows)

----------------------------------------------------------------------------
(* clean_data as a state machine.  cleaner is the SimpleDataCleaner object  *)
(* (impl tells which of the two modules defines it): its options, its df,   *)
(* its report, the stage it is about to run and the stages it has run.      *)
(* caller is the reference to the loaded table taken before the call: the   *)
(* content the object had then, and the content it has now.  cleaner.same   *)
(* tells whether cleaner.df is still that object.                           *)

\* the order of the steps in the body of clean_data
Pipeline(impl) ==
    IF impl = "simple" THEN <<"names", "sparse", "impute", "dups", "text", "report">>
    ELSE <<"sparse", "impute", "dups", "text", "names", "report">>

\* the step that follows a step, "done" after the last
After(impl, stage) ==
    LET order == Pipeline(impl)
        at == CHOOSE i \in 1..Len(order) : order[i] = stage
    IN IF at = Len(order) THEN "done" ELSE order[at + 1]

\* the object after __init__ has loaded a table
Constructed(impl, t, o) ==
    [pc |-> "constructed", impl |-> impl, options |-> o, df |-> t, same |-> TRUE,
     shape |-> IF FrameEmpty(t) /\ impl = "simple" THEN <<0, 0>> ELSE <<NRows(t), NCols(t)>>,
     report |-> IF FrameEmpty(t) /\ impl = "simple" THEN NoOptions
                ELSE [original_rows |-> NRows(t), original_columns |-> NCols(t)],
     log |-> <<>>]

\* the effect of a stage on the object and on the table the caller holds
Advance(stage, res, report) ==
    /\ cleaner' = [cleaner EXCEPT
                      !.pc = IF res.raised THEN "raised" ELSE After(cleaner.impl, stage),
                      !.df = res.df,
                      !.same = cleaner.same /\ ~res.rebound,
                      !.report = report,
                      !.log = IF res.raised THEN @ ELSE Append(@, stage)]
    /\ caller' = IF cleaner.same /\ ~res.rebound
                 THEN [caller EXCEPT !.table = res.df] ELSE caller
    /\ UNCHANGED <<file, pc, attempts, ret, unit, requests, disk, clock>>

\* the entry of clean_data: simple_cleaner.py answers an empty frame with an
\* error report, data_cleaner.py has no such test
Enter ==
    /\ cleaner.pc = "constructed"
    /\ IF cleaner.impl = "simple" /\ FrameEmpty(cleaner.df)
       THEN cleaner' = [cleaner EXCEPT !.pc = "done",
                           !.report = [error |-> "Empty DataFrame"] @@ @]
       ELSE cleaner' = [cleaner EXCEPT !.pc = Pipeline(cleaner.impl)[1]]
    /\ UNCHANGED <<file, pc, attempts, ret, unit, caller, requests, disk, clock>>

StageNames ==
    /\ cleaner.pc = "names"
    /\ Advance("names",
               StageResult(Renamed(cleaner.df, cleaner.impl), FALSE, FALSE),
               cleaner.report)

StageSparse ==
    /\ cleaner.pc = "sparse"
    /\ Advance("sparse",
               IF cleaner.impl = "simple" THEN SparseSimple(cleaner.df, cleaner.options)
               ELSE SparseLegacy(cleaner.df, cleaner.options),
               cleaner.report)

StageImpute ==
    /\ cleaner.pc = "impute"
    /\ Advance("impute", Impute(cleaner.df, cleaner.options, cleaner.impl), cleaner.report)

StageDups ==
    /\ cleaner.pc = "dups"
    /\ LET res == Dedupe(cleaner.df, cleaner.options)
       IN Advance("dups", res,
                  IF res.rebound
                  THEN [duplicates_removed |-> DuplicateCount(cleaner.df)] @@ cleaner.report
                  ELSE cleaner.report)

StageText ==
    /\ cleaner.pc = "text"
    /\ Advance("text", Standardize(cleaner.df, cleaner.options, cleaner.impl), cleaner.report)

\* counters that give what is left instead of what was removed
CountersOfWhatIsLeft(c) ==
    [final_rows |-> NRows(c.df), final_columns |-> NCols(c.df),
     rows_removed |-> NRows(c.df), columns_removed |-> NCols(c.df),
     cleaning_timestamp |-> clock]

\* self.report.update({...}); cleaning_timestamp is datetime.now() at the
\* update, read off the clock
FinalCounters(c) ==
    [final_rows |-> NRows(c.df), final_columns |-> NCols(c.df),
     rows_removed |-> c.shape[1] - NRows(c.df),
     columns_removed |-> c.shape[2] - NCols(c.df),
     cleaning_timestamp |-> clock]
    @@ (IF c.impl = "simple" THEN [note |-> "Simple cleaning applied"] ELSE NoOptions)

StageReport ==
    /\ cleaner.pc = "report"
    /\ Advance("report", StageResult(cleaner.df, FALSE, FALSE),
               FinalCounters(cleaner) @@ cleaner.report)

----------------------------------------------------------------------------
(* The tables and option mappings clean_data is run on.                     *)

MaxTableRows == 2
MaxTableCols == 2

\* the cells of a column of n rows, by the pattern of its content
Cells(pattern, n) ==
    [i \in 1..n |->
        CASE pattern = "count" -> Num(i, 1)
          [] pattern = "one" -> Num(1, 1)
          [] pattern = "gap" -> IF i = 1 THEN Missing ELSE Num(i - 1, 1)
          [] pattern = "void" -> Missing
          [] pattern = "word" -> Str(<<"x">>)
          [] pattern = "padded" -> IF i = 1 THEN Str(<<" ", "x">>) ELSE Str(<<"x">>)
          [] pattern = "blank" -> IF i = 1 THEN Missing ELSE Str(<<"x">>)
          [] OTHER -> Str(<<"$", "1", " ">>)]

\* read_csv gives a column without any text the dtype float64
DtypeOf(pattern) ==
    IF pattern \in {"count", "one", "gap", "void"} THEN "num" ELSE "obj"

ColumnSpec(name, pattern) == [name |-> name, pattern |-> pattern]

FirstColumns ==
    {ColumnSpec(n, p) :
        n \in {<<"A">>, <<" ", "B", "-", "c", " ">>},
        p \in {"count", "one", "gap", "void", "word", "padded", "blank", "money"}}

OtherColumns ==
    {ColumnSpec(<<"a">>, "count"), ColumnSpec(<<"a">>, "void"), ColumnSpec(<<"c">>, "word")}

ColumnLists ==
    UNION {{<<f>> \o rest : f \in FirstColumns, rest \in [1..k -> OtherColumns]}
           : k \in 0..(MaxTableCols - 1)}

TableOf(specs, n) ==
    Frame([j \in 1..Len(specs) |-> specs[j].name],
          [j \in 1..Len(specs) |-> DtypeOf(specs[j].pattern)],
          [i \in 1..n |-> [j \in 1..Len(specs) |-> Cells(specs[j].pattern, n)[i]]])

\* name,age / Alice,30 / Bob, (missing age)
ScenarioA ==
    Frame(<<<<"n", "a", "m", "e">>, <<"a", "g", "e">>>>, <<"obj", "num">>,
          <<<<Str(<<"A", "l", "i", "c", "e">>), Num(30, 1)>>,
            <<Str(<<"B", "o", "b">>), Missing>>>>)

\* five rows, the second and the third equal
ScenarioC ==
    Frame(<<<<"i", "d">>>>, <<"num">>,
          <<<<Num(1, 1)>>, <<Num(2, 1)>>, <<Num(2, 1)>>, <<Num(3, 1)>>, <<Num(4, 1)>>>>)

\* five rows, the second column missing in three of them
ScenarioD ==
    Frame(<<<<"k">>, <<"s">>>>, <<"num", "num">>,
          [i \in 1..5 |-> <<Num(i, 1), IF i <= 3 THEN Missing ELSE Num(i, 1)>>])

\* a numeric column whose mean, 2, is not its median, 1, and a text column
\* with a value to be the mode
Skewed ==
    Frame(<<<<"v">>, <<"w">>>>, <<"num", "obj">>,
          <<<<Missing, Str(<<"x">>)>>, <<Num(1, 1), Missing>>,
            <<Num(1, 1), Str(<<"x">>)>>, <<Num(4, 1), Str(<<"y">>)>>>>)

\* three equal rows
Triple == Frame(<<<<"t">>>>, <<"num">>, <<<<Num(7, 1)>>, <<Num(7, 1)>>, <<Num(7, 1)>>>>)

\* text columns whose first value is a price in euros and a bracketed list,
\* every cell with whitespace around it
Formatted ==
    Frame(<<<<"p">>, <<"q">>>>, <<"obj", "obj">>,
          <<<<Str(<<"euro", "1", " ">>), Str(<<"[", "1", "]", " ">>)>>,
            <<Str(<<" ", "x">>), Str(<<" ", "y">>)>>>>)

ScenarioTables == {ScenarioA, ScenarioC, ScenarioD, Skewed, Triple, Formatted}

LoadedTables ==
    {NoFrame} \cup ScenarioTables
    \cup {TableOf(specs, n) : specs \in ColumnLists, n \in 1..MaxTableRows}

ThresholdChoices ==
    {NoOptions, "missing_threshold" :> Pct(100),
     "missing_threshold" :> OptStr("0.5")}

DuplicateChoices == {NoOptions, "handle_duplicates" :> OptStr("keep")}

TextChoices == {NoOptions, "standardize_text" :> OptBool(TRUE)}

OtherChoices ==
    {NoOptions, ("handle_missing" :> OptStr("mean")) @@ ("verbose" :> OptStr("yes")),
     "handle_missing" :> OptStr("mode")}

OptionMappings ==
    {a @@ b @@ c @@ d : a \in ThresholdChoices, b \in DuplicateChoices,
                        c \in TextChoices, d \in OtherChoices}

IdleIngest ==
    /\ file = <<>>
    /\ pc = NotStarted
    /\ attempts = <<>>
    /\ ret = NoValue
    /\ unit = NoUnit

InitClean ==
    /\ IdleIngest
    /\ IdleUpload
    /\ \E impl \in {"simple", "legacy"}, t \in LoadedTables, o \in OptionMappings :
          \* _load_data of data_cleaner.py raises instead of keeping an empty frame
          /\ impl = "legacy" => ~FrameEmpty(t)
          /\ cleaner = Constructed(impl, t, o)
          /\ caller = [held |-> TRUE, before |-> t, table |-> t]

NextClean ==
    \/ Enter
    \/ StageNames
    \/ StageSparse
    \/ StageImpute
    \/ StageDups
    \/ StageText
    \/ StageReport

SpecClean == InitClean /\ [][NextClean]_vars

RECURSIVE RunStages(_, _, _, _)
\* the frame a sequence of stages leaves, each stage given the frame the
\* stage before it left; nothing runs after a stage that raised
RunStages(stages, impl, t, o) ==
    IF stages = <<>> THEN StageResult(t, FALSE, FALSE)
    ELSE LET stage == Head(stages)
             res == CASE stage = "names" -> StageResult(Renamed(t, impl), FALSE, FALSE)
                      [] stage = "sparse" -> IF impl = "simple" THEN SparseSimple(t, o)
                                             ELSE SparseLegacy(t, o)
                      [] stage = "impute" -> Impute(t, o, impl)
                      [] stage = "dups" -> Dedupe(t, o)
                      [] stage = "text" -> Standardize(t, o, impl)
                      [] OTHER -> StageResult(t, FALSE, FALSE)
         IN IF res.raised THEN res ELSE RunStages(Tail(stages), impl, res.df, o)

----------------------------------------------------------------------------
(* Loading a file into the cleaner: _load_data and _read_csv_robustly of    *)
(* simple_cleaner.py.  The loaded frame has typed columns.                  *)

IsDigit(c) == \E i \in 1..Len(Digits) : Digits[i] = c

\* the text is a non-negative integer literal
IsNumber(s) == s # <<>> /\ s # NaN /\ s # None /\ \A i \in 1..Len(s) : IsDigit(s[i])

DigitValue(c) == (CHOOSE i \in 1..Len(Digits) : Digits[i] = c) - 1

RECURSIVE NumberValue(_)
NumberValue(s) ==
    IF s = <<>> THEN 0
    ELSE 10 * NumberValue(SubSeq(s, 1, Len(s) - 1)) + DigitValue(s[Len(s)])

\* the frame read_csv builds from parsed text: a column whose present cells
\* are all numbers is numeric, any other column keeps its text
InferTypes(t) ==
    LET numeric(j) == \A i \in 1..Len(t.rows) :
                          t.rows[i][j] = NaN \/ IsNumber(t.rows[i][j])
        cell(i, j) == IF t.rows[i][j] = NaN THEN Missing
                      ELSE IF numeric(j) THEN Num(NumberValue(t.rows[i][j]), 1)
                      ELSE Str(t.rows[i][j])
    IN Frame(t.cols,
             [j \in 1..Len(t.cols) |-> IF numeric(j) THEN "num" ELSE "obj"],
             [i \in 1..Len(t.rows) |-> [j \in 1..Len(t.cols) |-> cell(i, j)]])

\* the frame pd.DataFrame builds from lists of strings: every column holds
\* objects, None where a row was short
AsObjects(t) ==
    Frame(t.cols,
          [j \in 1..Len(t.cols) |-> "obj"],
          [i \in 1..Len(t.rows) |->
              [j \in 1..Len(t.cols) |->
                  IF t.rows[i][j] = None THEN Missing ELSE Str(t.rows[i][j])]])

PandasEncodings == <<"utf-8", "latin1", "cp1252", "iso-8859-1", "utf-16">>
CsvModuleEncodings == <<"utf-8", "latin1", "cp1252", "iso-8859-1">>

RECURSIVE try_pandas_read(_, _)
\* the first encoding under which the tolerant read gives a non-empty frame
try_pandas_read(b, k) ==
    IF k > Len(PandasEncodings) THEN NoValue
    ELSE IF AcceptNonEmpty(TolerantRead(b, PandasEncodings[k]))
         THEN TolerantRead(b, PandasEncodings[k])
    ELSE try_pandas_read(b, k + 1)

\* the first read of one pass of the encoding loop of _try_csv_module, on
\* the bytes the file holds then: the delimiter counted in f.readline()
CsvModuleDelimiter(b, k) ==
    LET text == Decode(b, CsvModuleEncodings[k], "replace").text
    IN DetectDelimiter(IF text = <<>> THEN <<>> ELSE Split(text, NL)[1])

\* the second read of the pass, after f.seek(0), on the bytes the file holds
\* by then: a frame for more than one row, Raised for the passes that go on
\* to the next encoding
CsvModuleRead(b, k, delimiter) ==
    LET rows == CsvReader(Decode(b, CsvModuleEncodings[k], "replace").text, delimiter).rows
    IN IF Len(rows) > 1 THEN DataFrame(Tail(rows), Head(rows)) ELSE Raised

\* one pass of the encoding loop of _try_csv_module on a file that holds the
\* bytes b at both reads
CsvModuleTry(b, k) == CsvModuleRead(b, k, CsvModuleDelimiter(b, k))

RECURSIVE try_csv_module(_, _)
\* csv.reader with the delimiter most frequent in the first line; a frame
\* only for more than one row, the next encoding when the constructor raises
try_csv_module(b, k) ==
    IF k > Len(CsvModuleEncodings) THEN NoValue
    ELSE IF ~CsvModuleTry(b, k).raised THEN CsvModuleTry(b, k)
    ELSE try_csv_module(b, k + 1)

\* every non-blank line split on commas, cells stripped, rows padded
try_manual_parse(b) ==
    LET all == FileLines(Decode(b, "utf-8", "ignore").text)
        stripped == [i \in 1..Len(all) |-> Strip(all[i])]
        lines == SelectSeq(stripped, LAMBDA l : l # <<>>)
        rows == PadRows([i \in 1..Len(lines) |->
                            LET cells == Split(lines[i], ",")
                            IN [j \in 1..Len(cells) |-> Strip(cells[j])]])
    IN IF lines = <<>> THEN NoValue
       ELSE IF Len(rows) > 1 THEN DataFrame(Tail(rows), Head(rows))
       ELSE Table(Head(rows), <<>>)

Usable(df) == df # NoValue /\ ~df.raised /\ ~IsEmpty(df)

\* _read_csv_robustly followed by the test of _load_data: the first strategy
\* with a non-empty frame, else pd.DataFrame()
read_csv_robustly(b) ==
    IF Usable(try_pandas_read(b, 1)) THEN InferTypes(try_pandas_read(b, 1))
    ELSE IF Usable(try_csv_module(b, 1)) THEN AsObjects(try_csv_module(b, 1))
    ELSE IF Usable(try_manual_parse(b)) THEN AsObjects(try_manual_parse(b))
    ELSE NoFrame

----------------------------------------------------------------------------
(* Claims about clean_data.                                                 *)

\* C8: clean_data never mutates the table it was handed: once it has
\* returned, the table object that held the loaded data before the call
\* still has the labels, columns, rows and cells it had then.
C8_HandedTableUntouched ==
    cleaner.pc = "done" => caller.table = caller.before

\* C9: for every non-empty table and every option mapping, clean_data
\* returns a report and never raises.
C9_NeverRaises ==
    cleaner.pc # "raised"

C10_Started == cleaner.pc \notin {"off", "constructed"} /\ "error" \notin DOMAIN cleaner.report

C10_NamesFirst == <<"names", "sparse", "impute", "dups", "text", "report">>

\* C10: every run of clean_data applies column-name normalization,
\* sparse-column elimination, imputation, duplicate elimination and text
\* standardization in that order, then the report.
C10_OrderAsStated ==
    C10_Started /\ cleaner.pc = "done" => cleaner.log = C10_NamesFirst

----------------------------------------------------------------------------
(* _clean_column_name applied to a label on its own, and then to its own    *)
(* result.  unit holds the label and the results of the successive calls.   *)

MaxLabelLen == 3

LabelChars == {"A", "b", " ", "-", "_", "u0130", "eacute", "Atilde", "nbsp"}

\* the labels a loaded frame can bear: text, or NaN
LabelInputs == {NaN} \cup UNION {[1..n -> LabelChars] : n \in 0..MaxLabelLen}

InitLabel ==
    /\ file = <<>>
    /\ pc = NotStarted
    /\ attempts = <<>>
    /\ ret = NoValue
    /\ unit \in {[fn |-> "label", arg |-> n, out |-> <<>>] : n \in LabelInputs}
    /\ cleaner = NoCleaner
    /\ caller = NoCaller
    /\ IdleUpload

\* self._clean_column_name(col), col the label or the result of the call before
NormalizeLabel ==
    /\ unit.fn = "label"
    /\ Len(unit.out) < 2
    /\ unit' = [unit EXCEPT !.out =
                   Append(@, clean_column_name(IF @ = <<>> THEN unit.arg ELSE @[Len(@)]))]
    /\ UNCHANGED <<file, pc, attempts, ret, cleaner, caller, requests, disk, clock>>

NextLabel == NormalizeLabel

SpecLabel == InitLabel /\ [][NextLabel]_vars

\* C11: column-name normalization is idempotent: normalizing the result of
\* a normalization returns it unchanged.
C11_NormalizeIdempotent ==
    (unit.fn = "label" /\ Len(unit.out) = 2) => unit.out[2] = unit.out[1]

----------------------------------------------------------------------------
(* Claims about the stages of clean_data, each read off the state that      *)
(* follows the stage.                                                       *)

\* the stage that has just run
JustRan(stage) ==
    /\ cleaner.pc \notin {"off", "constructed"}
    /\ cleaner.log # <<>>
    /\ cleaner.log[Len(cleaner.log)] = stage

\* the frame the stage that has just run was given
FrameBefore ==
    RunStages(SubSeq(cleaner.log, 1, Len(cleaner.log) - 1), cleaner.impl,
              caller.before, cleaner.options).df

Threshold == Get(cleaner.options, "missing_threshold", Pct(50))

\* column j of t is missing in a fraction of its rows that exceeds pct percent
IsSparse(t, j, pct) == NullCount(t, j) * 100 > pct * NRows(t)

\* C12: sparse-column elimination drops a column if and only if its own
\* fraction of missing rows is strictly greater than missing_threshold; the
\* columns kept are the others, in their order.
C12_DropsIffSparse ==
    JustRan("sparse") =>
        LET Kept(j) == ~IsSparse(FrameBefore, j, Threshold.pct)
        IN cleaner.df = SelectColumns(FrameBefore,
                                      SelectSeq(Indices(NCols(FrameBefore)), Kept))

\* thresholds in [0,1], in percent
ThresholdGrid == {0, 25, 50, 75, 100}

\* the sparse stage of the cleaner's module run on t with the threshold pct
SparseAt(t, pct) ==
    LET o == ("missing_threshold" :> Pct(pct)) @@ cleaner.options
    IN IF cleaner.impl = "simple" THEN SparseSimple(t, o).df ELSE SparseLegacy(t, o).df

\* the labels of the columns the stage drops from t at the threshold pct
DroppedAt(t, pct) ==
    {t.cols[j] : j \in 1..NCols(t)}
    \ {SparseAt(t, pct).cols[j] : j \in 1..NCols(SparseAt(t, pct))}

\* C13: for thresholds t1 <= t2 in [0,1] the columns dropped at t2 are among
\* those dropped at t1, so that raising the threshold never increases the
\* number of dropped columns.
C13_ThresholdMonotone ==
    JustRan("sparse") =>
        \A p1, p2 \in ThresholdGrid :
            p1 <= p2 =>
                /\ DroppedAt(FrameBefore, p2) \subseteq DroppedAt(FrameBefore, p1)
                /\ NCols(SparseAt(FrameBefore, p2)) >= NCols(SparseAt(FrameBefore, p1))

\* the stage has run on a frame of which a higher threshold keeps a column
\* that a lower one drops, and the run itself dropped a column
C13_Witness ==
    /\ JustRan("sparse")
    /\ NCols(cleaner.df) < NCols(FrameBefore)
    /\ \E p1, p2 \in ThresholdGrid :
          /\ p1 < p2
          /\ NCols(SparseAt(FrameBefore, p2)) > NCols(SparseAt(FrameBefore, p1))
          /\ DroppedAt(FrameBefore, p2) # {}

Method == Get(cleaner.options, "handle_missing", OptStr("auto")).s

\* the value the statement gives the missing cells of column j of t
C14_FillValue(t, j) ==
    IF t.dtypes[j] # "num" THEN Unknown
    ELSE IF Method = "mean" THEN Mean(Present(Column(t, j)))
    ELSE IF Method = "mode" THEN Mode(Present(Column(t, j)))
    ELSE Median(Present(Column(t, j)))

\* C14: every column with a missing cell is filled by handle_missing and its
\* type: a numeric column with its median under auto or median, its mean
\* under mean, its mode under mode; any other column with 'Unknown'.
C14_FillByMethod ==
    JustRan("impute") =>
        \A j \in 1..NCols(FrameBefore) :
            Column(cleaner.df, j) = FillNa(Column(FrameBefore, j), C14_FillValue(FrameBefore, j))

\* duplicates_removed of the report, 0 when the report has no such field
DuplicatesRemoved ==
    IF "duplicates_removed" \in DOMAIN cleaner.report
    THEN cleaner.report.duplicates_removed ELSE 0

RECURSIVE C15_FirstOccurrences(_, _)
\* the rows that equal none of the rows seen so far, in their order
C15_FirstOccurrences(rows, seen) ==
    IF rows = <<>> THEN <<>>
    ELSE IF \E k \in 1..Len(seen) : seen[k] = Head(rows)
         THEN C15_FirstOccurrences(Tail(rows), seen)
    ELSE <<Head(rows)>> \o C15_FirstOccurrences(Tail(rows), Append(seen, Head(rows)))

\* the options with handle_duplicates = keep in place of what they say
C15_Keeping(o) == ("handle_duplicates" :> OptStr("keep")) @@ o

\* C15: with handle_duplicates = drop the table clean_data returns holds
\* exactly one copy of each distinct row: no two of its rows are equal, they
\* are the first occurrences, in their order, of the rows the same run
\* returns when it keeps duplicates, and duplicates_removed is the number of
\* rows removed; with keep no row is removed.
C15_OutputFirstOccurrences ==
    (C10_Started /\ cleaner.pc = "done") =>
        LET before == caller.before.rows
            after == cleaner.df.rows
            kept == RunStages(Pipeline(cleaner.impl), cleaner.impl, caller.before,
                              C15_Keeping(cleaner.options)).df.rows
        IN IF WantsDrop(cleaner.options)
           THEN /\ \A i, j \in 1..Len(after) : i # j => after[i] # after[j]
                /\ after = C15_FirstOccurrences(kept, <<>>)
                /\ DuplicatesRemoved = Len(before) - Len(after)
           ELSE Len(after) = Len(before)

\* C16: duplicate elimination is idempotent: applied to its own output it
\* removes no row, so the row count after two applications is the row count
\* after one.
C16_DedupeIdempotent ==
    JustRan("dups") =>
        LET again == Dedupe(cleaner.df, cleaner.options)
        IN /\ ~again.rebound
           /\ again.df = cleaner.df
           /\ NRows(again.df) = NRows(cleaner.df)

\* the stage has removed two of three equal rows
C16_Witness ==
    /\ JustRan("dups")
    /\ NRows(FrameBefore) = 3
    /\ NRows(cleaner.df) = 1
    /\ DuplicateCount(FrameBefore) = 2

\* C17: clean_data called on an empty table returns at once: no stage runs,
\* the table is left as it was, and the report holds the error marker
\* 'Empty DataFrame' and no other field.  A call that has returned without
\* a stage run is a call that found its table empty.
C17_EmptyTableReport ==
    (cleaner.pc = "done" /\ cleaner.log = <<>>) =>
        /\ FrameEmpty(cleaner.df)
        /\ DOMAIN cleaner.report = {"error"}
        /\ cleaner.report.error = "Empty DataFrame"

\* the columns the sparse stage of the finished run dropped
SparseDropped ==
    LET order == Pipeline(cleaner.impl)
        at == CHOOSE i \in 1..Len(order) : order[i] = "sparse"
        given == RunStages(SubSeq(order, 1, at - 1), cleaner.impl, caller.before,
                           cleaner.options).df
        left == RunStages(SubSeq(order, 1, at), cleaner.impl, caller.before,
                          cleaner.options).df
    IN NCols(given) - NCols(left)

\* C18: in the report of a run on a non-empty table, rows_removed is
\* original_rows - final_rows and is the number of duplicate rows removed
\* (0 without duplicates_removed), columns_removed is original_columns -
\* final_columns and is the number of columns the sparse stage dropped, and
\* neither is negative.
C18_CountersAccount ==
    (cleaner.pc = "done" /\ ~FrameEmpty(caller.before)) =>
        LET r == cleaner.report
        IN /\ r.original_rows = NRows(caller.before)
           /\ r.original_columns = NCols(caller.before)
           /\ r.rows_removed = r.original_rows - r.final_rows
           /\ r.rows_removed = DuplicatesRemoved
           /\ r.columns_removed = r.original_columns - r.final_columns
           /\ r.columns_removed = SparseDropped
           /\ r.rows_removed >= 0
           /\ r.columns_removed >= 0

\* a finished run that removed a duplicate row and dropped a sparse column
C18_Witness ==
    /\ cleaner.pc = "done"
    /\ ~FrameEmpty(caller.before)
    /\ cleaner.report.rows_removed > 0
    /\ cleaner.report.columns_removed > 0

----------------------------------------------------------------------------
(* A second call of clean_data on the same cleaner.  clean_data returns     *)
(* self.report itself, so the report the first call returned is the object  *)
(* the second call writes to; caller.returned records its content at the    *)
(* first return.  The clock has moved on by the second call: it counts the  *)
(* ticks of datetime.now() here.                                            *)

CallAgain ==
    /\ cleaner.pc = "done"
    /\ "returned" \notin DOMAIN caller
    /\ caller' = [returned |-> cleaner.report] @@ caller
    /\ cleaner' = [cleaner EXCEPT !.pc = "constructed", !.log = <<>>]
    /\ clock' = clock + 1
    /\ UNCHANGED <<file, pc, attempts, ret, unit, requests, disk>>

NextRerun ==
    \/ Enter
    \/ StageNames
    \/ StageSparse
    \/ StageImpute
    \/ StageDups
    \/ StageText
    \/ StageReport
    \/ CallAgain

SpecRerun == InitClean /\ [][NextRerun]_vars

\* C19: the report a clean_data run returned is never changed afterwards: a
\* later call on the same cleaner leaves every field of it as it was.
C19_ReturnedReportFrozen ==
    (cleaner.pc # "off" /\ "returned" \in DOMAIN caller) =>
        cleaner.report = caller.returned

----------------------------------------------------------------------------
(* Scenario A: the file name,age / Alice,30 / Bob, cleaned with              *)
(* missing_threshold = 0.5 and handle_missing = auto.                       *)

ScenarioACsv ==
    <<"n", "a", "m", "e", ",", "a", "g", "e", NL,
      "A", "l", "i", "c", "e", ",", "3", "0", NL,
      "B", "o", "b", ",", NL>>

ScenarioARun ==
    /\ cleaner.pc = "done"
    /\ caller.before = ScenarioA
    /\ Threshold = Pct(50)
    /\ Method = "auto"

\* C20 as stated: the output rows are ["alice", 30.0] and ["bob", 30.0],
\* rows_removed = 0 and columns_removed = 0.
C20_ScenarioAAsStated ==
    ScenarioARun =>
        /\ cleaner.df.rows = <<<<Str(<<"a", "l", "i", "c", "e">>), Num(30, 1)>>,
                               <<Str(<<"b", "o", "b">>), Num(30, 1)>>>>
        /\ cleaner.report.rows_removed = 0
        /\ cleaner.report.columns_removed = 0

\* C20, amended: the file loads as the table name, age with the rows
\* (Alice, 30), (Bob, missing), and the output rows are ["Alice", 30.0] and
\* ["Bob", 30.0]: the missing age is the median 30, the text keeps its
\* case; the columns are name and age, rows_removed = 0, columns_removed = 0.
C20_ScenarioA ==
    ScenarioARun =>
        /\ read_csv_robustly(ScenarioACsv) = ScenarioA
        /\ cleaner.df.cols = <<<<"n", "a", "m", "e">>, <<"a", "g", "e">>>>
        /\ cleaner.df.rows = <<<<Str(<<"A", "l", "i", "c", "e">>), Num(30, 1)>>,
                               <<Str(<<"B", "o", "b">>), Num(30, 1)>>>>
        /\ cleaner.report.rows_removed = 0
        /\ cleaner.report.columns_removed = 0

\* the scenario has run, text standardization included
C20_Witness ==
    /\ ScenarioARun
    /\ Truthy(Get(cleaner.options, "standardize_text", OptNone))
    /\ cleaner.impl = "simple"

----------------------------------------------------------------------------
(* Serialisation of the report and of the data preview: the values          *)
(* convert_to_serializable is given, what it returns, and the JSON text     *)
(* json.dump and jsonify write for it.  A Python value is a scalar, a list  *)
(* of values or a dict of string keys; a list's items are scalars or dicts. *)

Scalar(kind) == [t |-> kind, v |-> <<>>]
PyList(items) == [t |-> "list", v |-> items]
PyDict(items) == [t |-> "dict", v |-> items]
Item(key, val) == [k |-> key, val |-> val]

PyNone == Scalar("None")
FloatNaN == Scalar("float nan")
NpFloatNaN == Scalar("np.float64 nan")

\* a value that stands for a missing cell
IsMissingValue(obj) == obj \in {PyNone, FloatNaN, NpFloatNaN}

Returned(val) == [raised |-> FALSE, val |-> val]
ValueError == [raised |-> TRUE, val |-> PyNone]

\* bool(pd.isna(obj)) as the elif of convert_to_serializable evaluates it:
\* a scalar is tested itself; a list becomes an array of one truth value per
\* item, whose own truth value is that of its only item, is ambiguous
\* (ValueError) for more than one item and, for no item, False or a
\* ValueError according to the NumPy release; anything else is not NA
PdIsNa(obj, numpy) ==
    IF obj.t = "list" THEN
        IF Len(obj.v) > 1 THEN "raise"
        ELSE IF Len(obj.v) = 1
             THEN (IF IsMissingValue(obj.v[1]) THEN "true" ELSE "false")
        ELSE IF numpy = "raises on empty" THEN "raise" ELSE "false"
    ELSE IF IsMissingValue(obj) THEN "true" ELSE "false"

RECURSIVE convert_to_serializable(_, _)
convert_to_serializable(obj, numpy) ==
    IF obj.t = "np.int64 1" THEN Returned(Scalar("int 1"))
    ELSE IF obj.t = "np.float64 nan" THEN Returned(FloatNaN)
    ELSE IF obj.t = "np.float64 1.5" THEN Returned(Scalar("float 1.5"))
    ELSE IF PdIsNa(obj, numpy) = "raise" THEN ValueError
    ELSE IF PdIsNa(obj, numpy) = "true" THEN Returned(PyNone)
    ELSE IF obj.t = "dict" THEN
        LET each == [i \in 1..Len(obj.v) |->
                        convert_to_serializable(obj.v[i].val, numpy)]
        IN IF \E i \in 1..Len(each) : each[i].raised THEN ValueError
           ELSE Returned(PyDict([i \in 1..Len(each) |->
                                    Item(obj.v[i].k, each[i].val)]))
    ELSE IF obj.t = "list" THEN
        LET each == [i \in 1..Len(obj.v) |-> convert_to_serializable(obj.v[i], numpy)]
        IN IF \E i \in 1..Len(each) : each[i].raised THEN ValueError
           ELSE Returned(PyList([i \in 1..Len(each) |-> each[i].val]))
    ELSE Returned(obj)

\* what a JSON encoder gives: the text as a sequence of JSON tokens, or the
\* TypeError 'Object of type ... is not JSON serializable'
Written(text) == [raised |-> FALSE, text |-> text]
TypeError == [raised |-> TRUE, text |-> <<>>]

RECURSIVE Dumps(_, _)
\* the JSON encoder with allow_nan left on: "default_serializer" is
\* json.dump(report, f, default=default_serializer) of save_cleaning_report,
\* "jsonify" is jsonify, which has no default for a NumPy value.  A NumPy
\* float is a Python float and is written as one.  A NumPy integer is none
\* of the encoder's types: it goes to default, and default_serializer returns
\* str(obj) for it, which is written as a string; jsonify raises.
Dumps(obj, encoder) ==
    CASE obj.t = "None" -> Written(<<"null">>)
      [] obj.t \in {"float nan", "np.float64 nan"} -> Written(<<"NaN">>)
      [] obj.t \in {"float 1.5", "np.float64 1.5"} -> Written(<<"1.5">>)
      [] obj.t = "int 1" -> Written(<<"1">>)
      [] obj.t = "np.int64 1" ->
             IF encoder = "default_serializer" THEN Written(<<QUOTE, "1", QUOTE>>)
             ELSE TypeError
      [] obj.t = "str" -> Written(<<QUOTE, "s", QUOTE>>)
      [] obj.t = "list" ->
             LET each == [i \in 1..Len(obj.v) |-> Dumps(obj.v[i], encoder)]
             IN IF \E i \in 1..Len(each) : each[i].raised THEN TypeError
                ELSE Written(<<"[">>
                             \o Join([i \in 1..Len(each) |-> each[i].text], <<",">>)
                             \o <<"]">>)
      [] OTHER ->
             LET each == [i \in 1..Len(obj.v) |-> Dumps(obj.v[i].val, encoder)]
             IN IF \E i \in 1..Len(each) : each[i].raised THEN TypeError
                ELSE Written(<<"{">>
                             \o Join([i \in 1..Len(each) |->
                                         <<QUOTE, obj.v[i].k, QUOTE, ":">> \o each[i].text],
                                     <<",">>)
                             \o <<"}">>)

MaxListLen == 2

\* the values of a cell of the cleaned table or of an entry of the report
CellValues ==
    {PyNone, FloatNaN, NpFloatNaN, Scalar("np.float64 1.5"), Scalar("np.int64 1"),
     Scalar("str")}

\* the records of df.to_dict(orient='records') for one or two columns
Records ==
    {PyDict(<<Item("a", x)>>) : x \in CellValues}
    \cup {PyDict(<<Item("a", x), Item("b", y)>>) : x \in {FloatNaN, Scalar("str")},
                                                    y \in CellValues}

PreviewInputs == UNION {{PyList(rows) : rows \in [1..n -> Records]} : n \in 0..MaxListLen}

\* a report: counters, and possibly an entry that is a list of values
ReportInputs ==
    {PyDict(<<Item("final_rows", x), Item("extra", y)>>) :
        x \in CellValues,
        y \in CellValues \cup
              UNION {{PyList(s) : s \in [1..n -> {FloatNaN, Scalar("int 1")}]}
                     : n \in 0..MaxListLen}}

NumpyReleases == {"false on empty", "raises on empty"}

InitSerialize ==
    /\ file = <<>>
    /\ pc = NotStarted
    /\ attempts = <<>>
    /\ ret = NoValue
    /\ unit \in {[fn |-> kind, arg |-> x, numpy |-> n, done |-> FALSE,
                  raised |-> FALSE, text |-> <<>>] :
                    kind \in {"report"}, x \in ReportInputs, n \in NumpyReleases}
               \cup
               {[fn |-> kind, arg |-> x, numpy |-> n, done |-> FALSE,
                  raised |-> FALSE, text |-> <<>>] :
                    kind \in {"data"}, x \in PreviewInputs, n \in NumpyReleases}
    /\ cleaner = NoCleaner
    /\ caller = NoCaller
    /\ IdleUpload

\* convert_to_serializable(x) followed by the JSON encoder of the handler
Serialised(encoder) ==
    LET res == convert_to_serializable(unit.arg, unit.numpy)
        out == IF res.raised THEN [raised |-> TRUE, text |-> <<>>]
               ELSE Dumps(res.val, encoder)
    IN [unit EXCEPT !.done = TRUE, !.raised = out.raised, !.text = out.text]

\* index: convert_to_serializable(cleaning_report), then save_cleaning_report
SerialiseReport ==
    /\ unit.fn = "report"
    /\ ~unit.done
    /\ unit' = Serialised("default_serializer")
    /\ UNCHANGED <<file, pc, attempts, ret, cleaner, caller, requests, disk, clock>>

\* api_clean: convert_to_serializable(df_data), then jsonify
SerialiseData ==
    /\ unit.fn = "data"
    /\ ~unit.done
    /\ unit' = Serialised("jsonify")
    /\ UNCHANGED <<file, pc, attempts, ret, cleaner, caller, requests, disk, clock>>

NextSerialize ==
    \/ SerialiseReport
    \/ SerialiseData

SpecSerialize == InitSerialize /\ [][NextSerialize]_vars

RECURSIVE NullForMissing(_)
\* the value JSON can hold for obj: every missing value in it, at any depth,
\* replaced by None, and every NumPy number by the Python number
NullForMissing(obj) ==
    IF IsMissingValue(obj) THEN PyNone
    ELSE IF obj.t = "np.int64 1" THEN Scalar("int 1")
    ELSE IF obj.t = "np.float64 1.5" THEN Scalar("float 1.5")
    ELSE IF obj.t = "list" THEN PyList([i \in 1..Len(obj.v) |-> NullForMissing(obj.v[i])])
    ELSE IF obj.t = "dict"
         THEN PyDict([i \in 1..Len(obj.v) |->
                         Item(obj.v[i].k, NullForMissing(obj.v[i].val))])
    ELSE obj

\* C21: serialising the report and the data preview succeeds for every
\* input, and the text written is that of the value with every missing value
\* (None, NaN, NumPy NaN, also inside lists and mappings of any length)
\* turned into null: it holds no NaN.
C21_MissingSerialisedAsNull ==
    (unit.fn \in {"report", "data"} /\ unit.done) =>
        /\ ~unit.raised
        /\ unit.text = Dumps(NullForMissing(unit.arg), "jsonify").text
        /\ Count(unit.text, "NaN") = 0

----------------------------------------------------------------------------
(* The handlers of app.py that save an upload, run concurrently: index()    *)
(* by one request, and index(), preview() or api_clean() by another.  disk  *)
(* is the set of files: a path, the content, the requests that wrote the    *)
(* path and the time of the last write.  clock is the wall clock in         *)
(* seconds.  A path is the prefix, the time stamp, the file name and the    *)
(* suffix it is built from.  Every open of a file, and every read through   *)
(* an open after a seek to its start, is a step of its own: what a handler  *)
(* reads is what the path holds at that step.                               *)

MaxClock == 1

\* cleanup_old_files(max_age_hours=1)
MaxAgeHours == 1

\* two requests are in flight
Requests == {1, 2}

Path(prefix, ts, name, suffix) ==
    [prefix |-> prefix, ts |-> ts, name |-> name, suffix |-> suffix]

NoPath == Path("", -1, "", "")

\* FileHandler.save_uploaded_file: {timestamp}_{filename} in the upload folder
UploadPath(ts, name) == Path("", ts, name, "")

\* f"cleaned_{timestamp}_{filename}"
CleanedPath(ts, name) == Path("cleaned_", ts, name, "")

\* f"report_{timestamp}.json"
ReportPath(ts) == Path("report_", ts, "", ".json")

\* tempfile.NamedTemporaryFile(delete=False, suffix='.csv'): a fresh name in
\* the directory of temporary files
TempPath(r) == Path("tmp", 0, IF r = 1 THEN "tmp1" ELSE "tmp2", ".csv")

\* create_debug_file: filepath + '.debug.txt'
DebugPath(filepath) == [filepath EXCEPT !.suffix = @ \o ".debug.txt"]

Exists(d, p) == \E f \in d : f.path = p
ContentAt(d, p) == (CHOOSE f \in d : f.path = p).content
WritersOf(d, p) == IF Exists(d, p) THEN (CHOOSE f \in d : f.path = p).by ELSE {}

\* os.path.getmtime(p)
MTimeAt(d, p) == (CHOOSE f \in d : f.path = p).mtime

\* the path holds content, written by request r now
Write(d, p, content, r) ==
    {f \in d : f.path # p}
    \cup {[path |-> p, content |-> content, by |-> WritersOf(d, p) \cup {r},
           mtime |-> clock]}

\* os.unlink(p) guarded by os.path.exists(p)
Unlink(d, p) == {f \in d : f.path # p}

\* cutoff_time = datetime.now() - timedelta(hours=max_age_hours)
CutoffTime(now) == now - MaxAgeHours * 60 * 60

\* a cleaned file that a request of two hours ago left in the upload folder
OldFile ==
    [path |-> CleanedPath(CutoffTime(CutoffTime(0)), "data.csv"),
     content |-> <<"cleaned">>, by |-> {}, mtime |-> CutoffTime(CutoffTime(0))]

\* the uploads: an empty file, a header without data, a well-formed file,
\* a file whose two labels differ in case only
UploadNames == {"data.csv", "sales.csv"}
UploadContents ==
    {<<>>,
     <<"a", ",", "b", NL>>,
     <<"a", ",", "b", NL, "1", ",", "2", NL>>,
     <<"A", ",", "a", NL, "1", ",", "2", NL>>}

\* the options index() builds from a form left at its defaults
FormOptions ==
    ("handle_missing" :> OptStr("auto")) @@ ("missing_threshold" :> Pct(50))
    @@ ("handle_duplicates" :> OptStr("drop")) @@ ("standardize_text" :> OptBool(FALSE))

\* where a handler is in a cascade of reads: the strategy, the index of its
\* next encoding and, between the two reads of one open, the delimiter the
\* first read counted
AtRead(tier, k, delimiter) == [tier |-> tier, k |-> k, delimiter |-> delimiter]
At(tier, k) == AtRead(tier, k, "")

Request(kind, name, content) ==
    [kind |-> kind, pc |-> "start", name |-> name, content |-> content,
     upload |-> NoPath, filepath |-> NoPath, temp |-> NoPath, debug |-> NoPath,
     at |-> At("off", 0), text |-> <<>>, df |-> NoFrame,
     cutoff |-> 0, todo |-> {}, held |-> NoPath, outcome |-> "none"]

IdleOthers ==
    /\ IdleIngest
    /\ cleaner = NoCleaner
    /\ caller = NoCaller

\* request 1 is handled by index() and uploads data.csv; request 2 is
\* handled by index() too, or uploads to preview() or api_clean() a file of
\* the same name that holds a header only or is well-formed, with one row or
\* with two
InitUpload ==
    /\ IdleOthers
    /\ requests \in
           {(1 :> Request("index", "data.csv", c1)) @@ (2 :> Request("index", n2, c2)) :
                c1 \in UploadContents, n2 \in UploadNames, c2 \in UploadContents}
           \cup
           {(1 :> Request("index", "data.csv", c1)) @@ (2 :> Request(k2, "data.csv", c2)) :
                c1 \in UploadContents, k2 \in {"preview", "api_clean"},
                c2 \in {<<"a", ",", "b", NL>>,
                        <<"a", ",", "b", NL, "1", ",", "2", NL>>,
                        <<"a", ",", "b", NL, "1", ",", "2", NL, "3", ",", "4", NL>>}}
    /\ disk = {OldFile}
    /\ clock = 0

\* the request moves on; nothing but the upload state changes
Step(r, next, d) ==
    /\ requests' = [requests EXCEPT ![r] = next]
    /\ disk' = d
    /\ UNCHANGED <<file, pc, attempts, ret, unit, cleaner, caller, clock>>

\* the handler returns
Ended(q, outcome) ==
    [q EXCEPT !.pc = "done", !.outcome = outcome, !.at = At("off", 0), !.df = NoFrame]

\* save_uploaded_file up to the open of FileStorage.save: the destination is
\* opened for writing, which creates it or empties it
OpenUpload(r) ==
    LET q == requests[r]
        p == UploadPath(clock, q.name)
    IN /\ q.pc = "start"
       /\ Step(r, [q EXCEPT !.pc = "copy", !.upload = p], Write(disk, p, <<>>, r))

\* bytes written at the start of a file that holds old: what lies beyond
\* them stays
Overlay(old, bytes) == bytes \o From(old, Len(bytes))

\* FileStorage.save: the stream is copied to the open destination, from its
\* start.  What the file holds by then was written by another request since
\* this one opened it
SaveUpload(r) ==
    LET q == requests[r]
    IN /\ q.pc = "copy"
       /\ Step(r, [q EXCEPT !.pc = "read", !.at = At("direct", 1)],
               Write(disk, q.upload, Overlay(ContentAt(disk, q.upload), q.content), r))

Goes(at) == [done |-> FALSE, at |-> at, df |-> EmptyFrame]
Gives(df) == [done |-> TRUE, at |-> At("off", 0), df |-> df]

\* one read of the file by read_csv_with_fallbacks, on the bytes b the file
\* holds then: the value returned, or where the cascade goes on.  The manual
\* strategy reads the file twice through one open
IngestStep(b, at) ==
    CASE at.tier = "direct" ->
             IF AcceptDirect(DirectRead(b, Encodings[at.k]))
             THEN Gives(DirectRead(b, Encodings[at.k]))
             ELSE Goes(IF at.k < Len(Encodings) THEN At("direct", at.k + 1)
                       ELSE At("tolerant", 1))
      [] at.tier = "tolerant" ->
             IF AcceptNonEmpty(TolerantRead(b, Encodings[at.k]))
             THEN Gives(TolerantRead(b, Encodings[at.k]))
             ELSE Goes(IF at.k < Len(Encodings) THEN At("tolerant", at.k + 1)
                       ELSE At("manual", 1))
      [] at.tier = "manual" ->
             IF ManualPreview(b, at.k).found
             THEN Goes(AtRead("reader", at.k, ManualPreview(b, at.k).delimiter))
             ELSE Goes(IF at.k < Len(ManualEncodings) THEN At("manual", at.k + 1)
                       ELSE At("split", 1))
      [] at.tier = "reader" ->
             IF ManualReader(b, at.k, at.delimiter).raised
             THEN Goes(IF at.k < Len(ManualEncodings) THEN At("manual", at.k + 1)
                       ELSE At("split", 1))
             ELSE IF ManualReader(b, at.k, at.delimiter).rows = <<>>
             THEN Goes(At("split", 1))
             ELSE IF AcceptNonEmpty(ManualFrame(ManualReader(b, at.k, at.delimiter).rows))
             THEN Gives(ManualFrame(ManualReader(b, at.k, at.delimiter).rows))
             ELSE Goes(At("text", 1))
      [] at.tier = "split" ->
             IF AcceptNonEmpty(ManualFrame(SimpleSplitRows(b)))
             THEN Gives(ManualFrame(SimpleSplitRows(b)))
             ELSE Goes(At("text", 1))
      [] OTHER ->
             IF AcceptNonEmpty(text_based_csv_parse(b))
             THEN Gives(text_based_csv_parse(b))
             ELSE Gives(EmptyFrame)

\* the list that df.head(n).to_dict(orient='records') gives for a frame of
\* n rows, a dict per row; what the dicts hold has no part in the truth
\* value of pd.isna of the list, and their cells are converted without error
HeadRecords(n) == PyList([i \in 1..n |-> PyDict(<<>>)])

\* df_raw = read_csv_with_fallbacks(original_path), one read at a time.  An
\* empty result sends index() on to the text of the file, and ends preview()
\* and api_clean() with status 400; preview() answers from the frame
\* read, or with status 500 when convert_to_serializable raises
ReadRaw(r) ==
    LET q == requests[r]
        st == IngestStep(ContentAt(disk, q.upload), q.at)
    IN /\ q.pc = "read"
       /\ IF ~st.done THEN Step(r, [q EXCEPT !.at = st.at], disk)
          ELSE IF IsEmpty(st.df)
               THEN Step(r, IF q.kind = "index"
                            THEN [q EXCEPT !.pc = "reopen", !.at = At("off", 0)]
                            ELSE Ended(q, "empty"),
                         disk)
          ELSE IF q.kind = "preview"
               THEN \E numpy \in NumpyReleases :
                        Step(r, Ended(q, IF convert_to_serializable(
                                                HeadRecords(Len(st.df.rows)), numpy).raised
                                         THEN "error" ELSE "ok"),
                             disk)
          ELSE Step(r, [q EXCEPT !.pc = "load", !.filepath = q.upload,
                                 !.at = At("pandas", 1)],
                    disk)

\* with open(original_path, 'r', encoding='utf-8', errors='ignore') as f:
\* content = f.read()
ReopenUpload(r) ==
    LET q == requests[r]
    IN /\ q.pc = "reopen"
       /\ Step(r, [q EXCEPT !.pc = "fix",
                            !.text = Decode(ContentAt(disk, q.upload),
                                            "utf-8", "ignore").text],
               disk)

\* the cleaned content written to a temporary file, which becomes filepath
WriteFixed(r) ==
    LET q == requests[r]
    IN /\ q.pc = "fix"
       /\ Step(r, [q EXCEPT !.pc = "load", !.temp = TempPath(r),
                            !.filepath = TempPath(r), !.text = <<>>,
                            !.at = At("pandas", 1)],
               Write(disk, TempPath(r), clean_csv_content(q.text), r))

\* one read of the file by _read_csv_robustly, on the bytes b the file holds
\* then: the frame of the cleaner, or where the strategies go on.  The csv
\* module strategy reads the file twice through one open
LoadStep(b, at) ==
    CASE at.tier = "pandas" ->
             IF AcceptNonEmpty(TolerantRead(b, PandasEncodings[at.k]))
             THEN Gives(InferTypes(TolerantRead(b, PandasEncodings[at.k])))
             ELSE Goes(IF at.k < Len(PandasEncodings) THEN At("pandas", at.k + 1)
                       ELSE At("csv", 1))
      [] at.tier = "csv" ->
             Goes(AtRead("rows", at.k, CsvModuleDelimiter(b, at.k)))
      [] at.tier = "rows" ->
             IF ~CsvModuleRead(b, at.k, at.delimiter).raised
             THEN (IF Usable(CsvModuleRead(b, at.k, at.delimiter))
                   THEN Gives(AsObjects(CsvModuleRead(b, at.k, at.delimiter)))
                   ELSE Goes(At("parse", 1)))
             ELSE Goes(IF at.k < Len(CsvModuleEncodings) THEN At("csv", at.k + 1)
                       ELSE At("parse", 1))
      [] OTHER ->
             IF Usable(try_manual_parse(b)) THEN Gives(AsObjects(try_manual_parse(b)))
             ELSE Gives(NoFrame)

\* cleaner = DataCleaner(filepath, options), one read at a time; an empty
\* frame ends index() with a flash message and a redirect and api_clean()
\* with status 400
LoadCleaner(r) ==
    LET q == requests[r]
        st == LoadStep(ContentAt(disk, q.filepath), q.at)
    IN /\ q.pc = "load"
       /\ Step(r,
               IF ~st.done THEN [q EXCEPT !.at = st.at]
               ELSE IF FrameEmpty(st.df) THEN Ended(q, "empty")
               ELSE [q EXCEPT !.pc = IF q.kind = "index" THEN "debug" ELSE "clean",
                              !.df = st.df, !.at = At("off", 0)],
               disk)

\* debug_path = create_debug_file(filepath, cleaner.df)
CreateDebug(r) ==
    LET q == requests[r]
        p == DebugPath(q.filepath)
    IN /\ q.pc = "debug"
       /\ Step(r, [q EXCEPT !.pc = "clean", !.debug = p], Write(disk, p, <<"debug">>, r))

\* cleaning_report = cleaner.clean_data() of index(); an exception is caught
\* by the handler of index(), which flashes the error and redirects
CleanLoaded(r) ==
    LET q == requests[r]
        res == RunStages(Pipeline("simple"), "simple", q.df, FormOptions)
    IN /\ q.pc = "clean"
       /\ q.kind = "index"
       /\ IF res.raised
          THEN Step(r, Ended(q, "error"), disk)
          ELSE Step(r, [q EXCEPT !.pc = "save", !.df = res.df], disk)

\* api_clean() from clean_data on, with the options of an empty form: the
\* cleaned rows are converted and returned, and any exception is answered
\* with status 500
CleanAndAnswer(r) ==
    LET q == requests[r]
        res == RunStages(Pipeline("simple"), "simple", q.df, NoOptions)
    IN /\ q.pc = "clean"
       /\ q.kind = "api_clean"
       /\ \E numpy \in NumpyReleases :
              Step(r,
                   Ended(q, IF res.raised THEN "error"
                            ELSE IF convert_to_serializable(
                                        HeadRecords(NRows(res.df)), numpy).raised
                                 THEN "error"
                            ELSE "ok"),
                   disk)

\* file_handler.save_cleaned_data(cleaner.df, cleaned_filename)
SaveCleaned(r) ==
    LET q == requests[r]
    IN /\ q.pc = "save"
       /\ Step(r, [q EXCEPT !.pc = "report", !.df = NoFrame],
               Write(disk, CleanedPath(clock, q.name), <<"cleaned">>, r))

\* file_handler.save_cleaning_report(serializable_report, report_filename)
SaveReport(r) ==
    LET q == requests[r]
    IN /\ q.pc = "report"
       /\ Step(r, [q EXCEPT !.pc = "cleanup"],
               Write(disk, ReportPath(clock), <<"report">>, r))

\* os.unlink(temp_path) of a request that wrote a temporary file
Cleanup(r) ==
    LET q == requests[r]
    IN /\ q.pc = "cleanup"
       /\ Step(r, [q EXCEPT !.pc = "undebug"], Unlink(disk, q.temp))

\* os.unlink(debug_path), when the path still exists
UnlinkDebug(r) ==
    LET q == requests[r]
    IN /\ q.pc = "undebug"
       /\ Step(r, [q EXCEPT !.pc = "list"], Unlink(disk, q.debug))

\* the entries of the upload folder whose examination by cleanup_old_files
\* can have an effect: the files older than the cutoff, which it removes,
\* and the debug files, which the requests that wrote them unlink.  The
\* other entries are examined too, to no effect: nothing removes them
Sweepable(d, cutoff) ==
    {f.path : f \in {g \in d : /\ g.path.prefix # "tmp"
                              /\ \/ g.mtime < cutoff
                                 \/ g.path.suffix = ".debug.txt"}}

\* the loop of cleanup_old_files has no entry left: index() renders the page
Swept(q) == IF q.todo = {} /\ q.held = NoPath THEN Ended(q, "ok") ELSE q

\* cleanup_old_files: the cutoff and os.listdir(self.upload_folder)
ListFolder(r) ==
    LET q == requests[r]
    IN /\ q.pc = "list"
       /\ Step(r, Swept([q EXCEPT !.pc = "sweep", !.cutoff = CutoffTime(clock),
                                  !.todo = Sweepable(disk, CutoffTime(clock))]),
               disk)

\* os.path.isfile(filepath) for an entry of the listing, in the order the
\* file system gave them
SweepIsFile(r) ==
    LET q == requests[r]
    IN /\ q.pc = "sweep"
       /\ q.held = NoPath
       /\ \E p \in q.todo :
              Step(r,
                   Swept([q EXCEPT !.todo = @ \ {p},
                                   !.held = IF Exists(disk, p) THEN p ELSE NoPath]),
                   disk)

\* os.path.getmtime(filepath), which raises FileNotFoundError for a file
\* removed since isfile; the exception is caught by the handler of index().
\* A file older than the cutoff is held on for os.remove
SweepMTime(r) ==
    LET q == requests[r]
    IN /\ q.pc = "sweep"
       /\ q.held # NoPath
       /\ Step(r,
               IF ~Exists(disk, q.held)
               THEN Ended([q EXCEPT !.held = NoPath, !.todo = {}], "error")
               ELSE IF MTimeAt(disk, q.held) < q.cutoff THEN [q EXCEPT !.pc = "remove"]
               ELSE Swept([q EXCEPT !.held = NoPath]),
               disk)

\* os.remove(filepath) of the file found older than the cutoff; the
\* exception for a file removed since is passed over
SweepRemove(r) ==
    LET q == requests[r]
    IN /\ q.pc = "remove"
       /\ Step(r, Swept([q EXCEPT !.pc = "sweep", !.held = NoPath]),
               Unlink(disk, q.held))

\* a second passes
Tick ==
    /\ clock < MaxClock
    /\ clock' = clock + 1
    /\ UNCHANGED <<file, pc, attempts, ret, unit, cleaner, caller, requests, disk>>

NextUpload ==
    \/ \E r \in Requests : OpenUpload(r)
    \/ \E r \in Requests : SaveUpload(r)
    \/ \E r \in Requests : ReadRaw(r)
    \/ \E r \in Requests : ReopenUpload(r)
    \/ \E r \in Requests : WriteFixed(r)
    \/ \E r \in Requests : LoadCleaner(r)
    \/ \E r \in Requests : CreateDebug(r)
    \/ \E r \in Requests : CleanLoaded(r)
    \/ \E r \in Requests : CleanAndAnswer(r)
    \/ \E r \in Requests : SaveCleaned(r)
    \/ \E r \in Requests : SaveReport(r)
    \/ \E r \in Requests : Cleanup(r)
    \/ \E r \in Requests : UnlinkDebug(r)
    \/ \E r \in Requests : ListFolder(r)
    \/ \E r \in Requests : SweepIsFile(r)
    \/ \E r \in Requests : SweepMTime(r)
    \/ \E r \in Requests : SweepRemove(r)
    \/ Tick

SpecUpload == InitUpload /\ [][NextUpload]_vars

----------------------------------------------------------------------------
(* Claims about the files of an upload.                                     *)

\* C6: on every exit path of handling one uploaded file, the temporary
\* file and the debug file created by that request have been deleted by the
\* time the request ends.
C6_TempFilesDeleted ==
    \A r \in DOMAIN requests :
        requests[r].pc = "done" =>
            /\ ~Exists(disk, requests[r].temp)
            /\ ~Exists(disk, requests[r].debug)

\* C7: two concurrent requests never write the same file path.
C7_PathsNeverShared ==
    \A f \in disk : Cardinality(f.by) <= 1

----------------------------------------------------------------------------
(* The encoding guess and the direct structured parse.                      *)

\* the values detect_file_encoding can return for the bytes b: chardet gives
\* no encoding (confidence 0) for no bytes and ascii (confidence 1) for bytes
\* that are all ASCII; for other bytes its guess is statistical, and below the
\* confidence 0.7 the function falls back on utf-8
detect_file_encoding(b) ==
    IF b = <<>> THEN {"utf-8"}
    ELSE IF Count(b, "xE9") = 0 THEN {"ascii"}
    ELSE {"ISO-8859-1", "Windows-1252", "utf-8"}

IsDirectAttempt(a) == a.tier = "direct"

\* C22: the direct structured parse tries the guessed encoding first and
\* then utf-8, latin1, cp1252, iso-8859-1, utf-16, ascii in that order, and
\* what it returns is the parse of the first of them that has more than one
\* column and at least one row, never a parse of one column or of no row.
C22_GuessedEncodingFirst ==
    LET direct == SelectSeq(attempts, IsDirectAttempt)
    IN /\ \E guess \in detect_file_encoding(file) :
              \A j \in 1..Len(direct) : direct[j].enc = (<<guess>> \o Encodings)[j]
       /\ \A j \in 1..(Len(direct) - 1) : direct[j].outcome # "accepted"
       /\ (pc.tier = "returned" /\ attempts[Len(attempts)].tier = "direct") =>
              /\ Len(ret.cols) > 1
              /\ Len(ret.rows) >= 1

----------------------------------------------------------------------------
(* Delimiter detection of the manual tokenisations, applied to a file whose *)
(* first line is drawn from the candidate delimiters and a letter.          *)

MaxFirstLineLen == 4

FirstLineChars == {"a", ",", ";", "\t", "|"}

FirstLines == UNION {[1..n -> FirstLineChars] : n \in 0..MaxFirstLineLen}

\* a data line holding every candidate delimiter once
MixedLine == <<"1", ",", "2", ";", "3", "\t", "4", "|", "5">>

DelimiterFiles == {FileOf(<<h, MixedLine>>) : h \in FirstLines}

InitDelimiter ==
    /\ file \in DelimiterFiles
    /\ pc = [tier |-> "direct", k |-> 1]
    /\ attempts = <<>>
    /\ ret = NoValue
    /\ unit = NoUnit
    /\ cleaner = NoCleaner
    /\ caller = NoCaller
    /\ IdleUpload

\* SimpleDataCleaner._try_csv_module called on the file
ApplyCsvModule ==
    /\ pc.tier = "direct" /\ pc.k = 1
    /\ unit' = [fn |-> "csv_module", out |-> try_csv_module(file, 1)]
    /\ pc' = [tier |-> "unit", k |-> 0]
    /\ UNCHANGED <<file, attempts, ret, cleaner, caller, requests, disk, clock>>

NextDelimiter ==
    \/ ApplyManual
    \/ ApplyCsvModule

SpecDelimiter == InitDelimiter /\ [][NextDelimiter]_vars

\* C23: manual tokenization splits the entire file on the candidate
\* delimiter that occurs most often in the first line, and on the earliest
\* of comma, semicolon, tab, pipe when several occur most often or none
\* occurs at all.
C23_MostFrequentDelimiter ==
    (pc.tier = "unit" /\ unit.fn \in {"manual", "csv_module"}) =>
        LET rows == CsvReader(file, DetectDelimiter(FileLines(file)[1])).rows
        IN /\ unit.fn = "manual" =>
                  unit.out = DataFrame(Tail(PadRows(rows)), Head(PadRows(rows)))
           /\ (unit.fn = "csv_module" /\ unit.out # NoValue) =>
                  unit.out = DataFrame(Tail(rows), Head(rows))

----------------------------------------------------------------------------
(* The content-cleaning pass on its own: clean_csv_content of app.py and    *)
(* fix_csv_issues of utils/csv_fixer.py applied to a text, and then to      *)
(* their own result.  unit holds the text and the successive results.       *)

RECURSIVE LeadingSpaces(_)
\* the length of the run of whitespace s starts with
LeadingSpaces(s) ==
    IF s # <<>> /\ IsSpace(Head(s)) THEN 1 + LeadingSpaces(Tail(s)) ELSE 0

RECURSIVE SubSpacesBetween(_, _, _)
\* re.sub of first, one or more whitespace characters, last by first last
SubSpacesBetween(s, first, last) ==
    IF s = <<>> THEN <<>>
    ELSE LET rest == Tail(s)
             k == LeadingSpaces(rest)
         IN IF Head(s) = first /\ k >= 1 /\ Len(rest) > k /\ rest[k + 1] = last
            THEN <<first, last>> \o SubSpacesBetween(From(rest, k + 1), first, last)
            ELSE <<Head(s)>> \o SubSpacesBetween(rest, first, last)

RECURSIVE SubQuoteSpacesEnd(_)
\* re.sub(r'"\s*$', '"', s): the whitespace after a quote that ends the text
SubQuoteSpacesEnd(s) ==
    IF s = <<>> THEN <<>>
    ELSE IF Head(s) = QUOTE /\ LeadingSpaces(Tail(s)) = Len(Tail(s)) THEN <<QUOTE>>
    ELSE <<Head(s)>> \o SubQuoteSpacesEnd(Tail(s))

\* the loop of fix_csv_issues: every line stripped, blank lines skipped, the
\* others given the header's number of commas
FixedLines(lines, expected_commas) ==
    LET stripped == [i \in 1..Len(lines) |-> Strip(lines[i])]
        kept == SelectSeq(stripped, HasText)
    IN [i \in 1..Len(kept) |-> FixLine(kept[i], expected_commas)]

\* the text fix_csv_issues writes for the text it read
fix_csv_issues(content) ==
    LET eol == ReplaceAll(ReplaceAll(content, <<"\r", NL>>, <<NL>>), <<"\r">>, <<NL>>)
        nobom == IF eol # <<>> /\ Head(eol) = "uFEFF" THEN Tail(eol) ELSE eol
        spaced == SubQuoteSpacesEnd(
                      SubSpacesBetween(SubSpacesBetween(nobom, ",", QUOTE), QUOTE, ","))
        lines == Split(Strip(spaced), NL)
    IN Join(FixedLines(lines, Count(lines[1], ",")), <<NL>>)

MaxRepairRows == 2

RepairHeaders == {<<"a">>, <<"a", ",", "b">>, <<"a", ",", "b", ",", "c">>}

RepairLines ==
    { <<"1">>,
      <<"1", ",", "2">>,
      <<"1", ",", "2", ",", "3">>,
      <<"1", ",", "2", ",", "3", ",", "4">>,
      <<"1", ",", QUOTE, "2", ",", "3", QUOTE>>,
      <<QUOTE, "1", ",", "2", QUOTE, ",", "3">>,
      <<"1", ",", " ", QUOTE, "2", QUOTE>>,
      <<"Atilde", "copy", ",", "Atilde", "sup3">>,
      <<"Atilde", "plusmn", ",", "Atilde", "sect">>,
      <<"Acirc", "nbsp", "1", ",", "acirc", "euro">>,
      <<" ">> }

RepairEols == {<<NL>>, <<"\r", NL>>}

RepairTexts ==
    UNION {{bom \o Join(<<h>> \o body, eol) \o eol :
               bom \in {<<>>, <<"uFEFF">>}, h \in RepairHeaders,
               body \in [1..k -> RepairLines], eol \in RepairEols}
           : k \in 0..MaxRepairRows}

InitRepair ==
    /\ file = <<>>
    /\ pc = NotStarted
    /\ attempts = <<>>
    /\ ret = NoValue
    /\ unit \in {[fn |-> f, arg |-> x, out |-> <<>>] :
                    f \in {"clean_csv_content", "fix_csv_issues"}, x \in RepairTexts}
    /\ cleaner = NoCleaner
    /\ caller = NoCaller
    /\ IdleUpload

\* the text the next pass is given
RepairInput == IF unit.out = <<>> THEN unit.arg ELSE unit.out[Len(unit.out)]

CleanContent ==
    /\ unit.fn = "clean_csv_content"
    /\ Len(unit.out) < 2
    /\ unit' = [unit EXCEPT !.out = Append(@, clean_csv_content(RepairInput))]
    /\ UNCHANGED <<file, pc, attempts, ret, cleaner, caller, requests, disk, clock>>

FixIssues ==
    /\ unit.fn = "fix_csv_issues"
    /\ Len(unit.out) < 2
    /\ unit' = [unit EXCEPT !.out = Append(@, fix_csv_issues(RepairInput))]
    /\ UNCHANGED <<file, pc, attempts, ret, cleaner, caller, requests, disk, clock>>

NextRepair ==
    \/ CleanContent
    \/ FixIssues

SpecRepair == InitRepair /\ [][NextRepair]_vars

\* a pass has been applied to the text
Repaired == unit.fn \in {"clean_csv_content", "fix_csv_issues"} /\ unit.out # <<>>

\* the fields of one line under quote-aware splitting on the comma
LineFields(line) ==
    LET rows == CsvReader(line, ",").rows IN IF rows = <<>> THEN <<>> ELSE rows[1]

\* C24: after the content-cleaning pass every data line, split quote-aware
\* on the delimiter, has exactly as many fields as the header line, whatever
\* the header, a header without any delimiter included.
C24_LinesHaveHeaderWidth ==
    (Repaired /\ unit.out[1] # <<>>) =>
        LET lines == Split(unit.out[1], NL)
        IN \A i \in 2..Len(lines) :
               Len(LineFields(lines[i])) = Len(LineFields(lines[1]))

\* the entries of the table whose mis-encoded sequence s starts with
EntriesAt(s) ==
    {k \in 1..Len(Replacements) :
        /\ Len(Replacements[k][1]) <= Len(s)
        /\ SubSeq(s, 1, Len(Replacements[k][1])) = Replacements[k][1]}

RECURSIVE IntendedText(_)
\* s with every occurrence of a mis-encoded sequence of the table, read from
\* the left and taken whole, replaced by the character its entry intends
IntendedText(s) ==
    IF s = <<>> THEN <<>>
    ELSE IF EntriesAt(s) = {} THEN <<Head(s)>> \o IntendedText(Tail(s))
    ELSE LET k == CHOOSE e \in EntriesAt(s) :
                      \A o \in EntriesAt(s) :
                          Len(Replacements[o][1]) <= Len(Replacements[e][1])
         IN Replacements[k][2] \o IntendedText(From(s, Len(Replacements[k][1])))

\* C25: the content-cleaning pass replaces every occurrence of each
\* mis-encoded sequence of its table by the character that entry intends,
\* in whatever order the entries are applied: its result is that of the pass
\* on the text in which these replacements have been made.
C25_IntendedCharacters ==
    (unit.fn = "clean_csv_content" /\ unit.out # <<>>) =>
        unit.out[1] = clean_csv_content(IntendedText(unit.arg))

----------------------------------------------------------------------------
(* Text standardization, missing cells in the output, and sparse columns    *)
(* under colliding names.                                                   *)

CurrencySymbols == {"$", "euro"}

\* the first non-missing value of column j holds a currency symbol or is a
\* bracketed literal
C26_Exempt(t, j) ==
    LET present == Present(Column(t, j))
    IN /\ present # <<>>
       /\ \/ \E k \in 1..Len(present[1].s) : present[1].s[k] \in CurrencySymbols
          \/ (present[1].s # <<>> /\ Head(present[1].s) = "[")

\* a cell with the whitespace around its text removed
C26_Trimmed(c) == IF IsNull(c) THEN c ELSE Str(Strip(c.s))

\* C26: with standardize_text enabled every cell of every non-numeric column
\* is trimmed, but a column whose first non-missing value holds a currency
\* symbol or is a bracketed literal is left as it is; numeric columns, and
\* all columns when standardize_text is disabled, are left as they are; the
\* numbers of rows and of columns do not change.
C26_TextStandardized ==
    JustRan("text") =>
        LET given == FrameBefore
            on == Truthy(Get(cleaner.options, "standardize_text", OptNone))
        IN /\ NRows(cleaner.df) = NRows(given)
           /\ cleaner.df.cols = given.cols
           /\ \A j \in 1..NCols(given) :
                  Column(cleaner.df, j) =
                      IF on /\ given.dtypes[j] = "obj" /\ ~C26_Exempt(given, j)
                      THEN [i \in 1..NRows(given) |-> C26_Trimmed(given.rows[i][j])]
                      ELSE Column(given, j)

\* C27: once clean_data has returned on a table that was not empty, no cell
\* of the output table is missing, whatever missing_threshold in [0,1] and
\* handle_missing are, a column with every cell missing that was kept under
\* missing_threshold = 1 included.
C27_NoMissingCellLeft ==
    (cleaner.pc = "done" /\ ~FrameEmpty(caller.before) /\ Threshold.k = "num") =>
        \A i \in 1..NRows(cleaner.df) :
            \A j \in 1..NCols(cleaner.df) : ~IsNull(cleaner.df.rows[i][j])

\* the columns of t that are not sparse at the threshold pct, in their order
C28_NotSparse(t, pct) ==
    SelectSeq(Indices(NCols(t)), LAMBDA j : ~IsSparse(t, j, pct))

\* C28: sparse-column elimination removes only columns whose own fraction
\* of missing rows exceeds missing_threshold, also when two columns bear the
\* same name after column-name normalization: every column that is not
\* sparse is still there after the stage, with its cells.
C28_OnlySparseColumnsDropped ==
    (JustRan("sparse") /\ Threshold.k = "num") =>
        LET given == FrameBefore
            kept == C28_NotSparse(given, Threshold.pct)
        IN \E at \in [1..Len(kept) -> 1..NCols(cleaner.df)] :
               /\ \A a, b \in 1..Len(kept) : a < b => at[a] < at[b]
               /\ \A a \in 1..Len(kept) :
                      /\ cleaner.df.cols[at[a]] = given.cols[kept[a]]
                      /\ Column(cleaner.df, at[a]) = Column(given, kept[a])

----------------------------------------------------------------------------
(* The lines the column reconciliation of the content-cleaning pass is      *)
(* given, and what it makes of them.                                        *)

\* the non-blank lines of the text of the first pass, as the reconciliation
\* loop receives them: line endings, byte order mark, replacements (app.py)
\* or spaces around quotes and around lines (csv_fixer.py) already dealt with
C29_GivenLines ==
    LET eol == ReplaceAll(ReplaceAll(unit.arg, <<"\r", NL>>, <<NL>>), <<"\r">>, <<NL>>)
        nobom == IF eol # <<>> /\ Head(eol) = "uFEFF" THEN Tail(eol) ELSE eol
        spaced == SubQuoteSpacesEnd(
                      SubSpacesBetween(SubSpacesBetween(nobom, ",", QUOTE), QUOTE, ","))
        lines == Split(Strip(spaced), NL)
    IN IF unit.fn = "clean_csv_content"
       THEN SelectSeq(Split(ApplyReplacements(nobom, 1), NL), HasText)
       ELSE SelectSeq([i \in 1..Len(lines) |-> Strip(lines[i])], HasText)

\* C29: the content-cleaning pass leaves unchanged every data line that
\* already has the header's number of fields under quote-aware splitting, a
\* line with a properly quoted field that holds the delimiter in particular.
C29_FullLinesUnchanged ==
    Repaired =>
        LET given == C29_GivenLines
            left == Split(unit.out[1], NL)
        IN \A i \in 2..Len(given) :
               Len(LineFields(given[i])) = Len(LineFields(given[1])) =>
                   (i <= Len(left) /\ left[i] = given[i])

\* C30: the content-cleaning pass is idempotent: applied to its own result
\* it returns that result unchanged, also when the first pass merged
\* overflow fields into one quoted trailing field.
C30_CleanContentIdempotent ==
    (unit.fn = "clean_csv_content" /\ Len(unit.out) = 2) => unit.out[2] = unit.out[1]

====
